---- MODULE Spec2Model ----
(***************************************************************************)
(* State-machine model of the felt-experience / engagement / gap-learning  *)
(* pipeline: ClaudeLivingRAS, ClaudeEmotionalIntelligence,                 *)
(* ClaudeSelfReflection, ClaudeProprioception, ClaudeConsciousOrchestrator *)
(* and ArohaPatternLearning.                                               *)
(*                                                                         *)
(* Numbers.  Every scalar of the code that lives in [0,1] (or [-1,1], or   *)
(* [0,10]) is held as an integer number of ten-thousandths, so 0.7 is 7000 *)
(* and 1.0 is 10000.  All increments and weights of the RAS are multiples  *)
(* of 0.05, so its sums and weighted sums are exact in this unit.          *)
(* A GapPattern confidence is held in three-hundredths (occurrences / 3.0  *)
(* is occurrences * 100; the literal 0.33 is 99 and the literal 0.66 is    *)
(* 198).                                                                   *)
(*                                                                         *)
(* Texts.  The code looks at a text only through `keyword in text.lower()`,*)
(* len(text.split()) and a slice.  A text is therefore the set of          *)
(* fragments it contains (a fragment is a keyword-bearing piece of the     *)
(* text, in the case it was written in); a message adds the number of      *)
(* further words and the fragments that lie beyond its first 100           *)
(* characters.                                                             *)
(***************************************************************************)
EXTENDS Integers, Sequences, FiniteSets, TLC

VARIABLES
    \* ---- one call of the pure RAS functions (inputs drawn by Init) ----
    fn_in,          \* the ConversationalContext handed to feel_the_moment
    fn_felt,        \* the FeltExperience it returned (NoFelt before the call)
    fn_level,       \* what choose_engagement returned for fn_felt
    fn_pc,          \* position of the caller: "start", "felt", "chosen"
    \* ---- repeated calls of choose_engagement on arbitrary pulls ----
    ce_pull, ce_level, ce_prev_pull, ce_prev_level,
    \* ---- which program a behaviour exercises ----
    program,        \* "functions", "aroha", "reflection", "emotion", "orchestrator"
    \* ---- ArohaPatternLearning and its three append-only files ----
    ar_gap_patterns,            \* pattern_type -> GapPattern
    ar_adjustment_suggestions,  \* list of WeightAdjustmentSuggestion
    ar_pattern_threshold,
    patterns_file,              \* PATTERNS_FILE, one record per line
    suggestions_file,           \* SUGGESTIONS_FILE
    moments_file,               \* MOMENTS_FILE
    ar_restarts,                \* constructions after the first one
    \* ---- ClaudeSelfReflection ----
    sr_significant_moments,
    sr_gap_patterns,
    sr_adjustment_suggestions,
    sr_suggestions_file,
    \* ---- what the last get_learning_insights call returned ----
    insights,
    \* ---- the clock read by time.strftime / time.time ----
    now,
    \* ---- ClaudeLivingRAS instance ----
    ras_conversation_memory,
    ras_current_engagement,
    ras_result,     \* what the last process_conversation call returned
    fn_prev_in,     \* the direct feel_the_moment call before the last one
    fn_prev_felt,
    \* ---- ClaudeEmotionalIntelligence instance ----
    ei,             \* its fields, with pad, neurotransmitters and values inside
    ei_returned,    \* what the last call on it returned
    \* ---- ClaudeProprioception instance ----
    pr,             \* schema, resources, state, awareness_stream, recent_activities
    \* ---- ClaudeConsciousOrchestrator ----
    exchanges_processed,
    consciousness_history,
    recent_tool_calls,
    result,         \* what the last process_conversation call returned
    summary,        \* what get_consciousness_summary returned since the last turn
    \* ---- GeminiEmbodiedAgent (gemini_integrated_client.py) ----
    agent,          \* its fields, with those of its GeminiLivingRAS inside
    watch           \* an observer's stopwatch: requests seen leaving since it started

None == "None"
\* a record-valued variable that holds nothing yet
Nothing == [none |-> TRUE]
NoFelt == Nothing
\* an Optional[str] that is None
NoneText == {"<None>"}

(***************************************************************************)
(* Bounds of the input space                                               *)
(***************************************************************************)
MaxKw == 2          \* fragments per generated message
MaxFiller == 2      \* further (keyword-free) words per generated message
MaxHist == 4        \* retained prior turns handed to a direct call
MaxMoments == 3     \* notice_moment calls in one behaviour of a learner
MaxRestarts == 1    \* re-constructions of ArohaPatternLearning
MaxModeTools == 6   \* labels handed to one proprioceptive scan
MaxThreshold == 3   \* largest pattern_threshold a learner is constructed with
MaxLog == 3         \* lines of a pattern log handed to a construction
MaxGenerate == 2    \* suggestions stored before generation stops being called
MaxRasTurns == 4    \* process_conversation calls on a ClaudeLivingRAS alone
MaxExchanges == 4   \* exchanges appraised by a ClaudeEmotionalIntelligence alone
MaxTurns == 2       \* orchestrator turns with freely chosen inputs
MaxTools == 2       \* tool calls tracked between those turns
MaxHistTurns == 52  \* orchestrator turns of a long session
MaxHistTools == 7   \* tool calls tracked in a long session
ToolPhase == 2      \* turns of a long session before which tools are tracked

Scale == 100 * 100  \* 1.0

(***************************************************************************)
(* Texts                                                                   *)
(***************************************************************************)
\* str.lower() on one fragment
LowerFrag(f) ==
    CASE f = "MINIMAL" -> "minimal"
      [] f = "HELPFUL" -> "helpful"
      [] f = "THOUGHTFUL" -> "thoughtful"
      [] f = "COLLABORATIVE" -> "collaborative"
      [] f = "FULL_PRESENCE" -> "full_presence"
      [] f = "Permission" -> "permission"
      [] f = "Aroha" -> "aroha"
      [] f = "Trust" -> "trust"
      [] OTHER -> f

\* str.lower() on a text
Lower(text) == {LowerFrag(f) : f \in text}

\* the keywords that are proper substrings of another fragment
SubstringPairs ==
    { <<"how", "show me">>, <<"you", "make it work for you">>,
      <<"help", "helpful">>, <<"act", "action">>, <<"grow", "growth">>,
      <<"learn", "learning">> }

\* `word in text` (substring test) on a lower-cased text
Has(text, word) ==
    \E f \in text : f = word \/ <<word, f>> \in SubstringPairs

\* any(word in text for word in words)
HasAny(text, words) == \E w \in words : Has(text, w)

\* len(msg.split()) of a message
WordCount(m) ==
    LET k == Cardinality(m.kws \ {"?"})
    IN  IF k + m.filler = 0 /\ "?" \in m.kws THEN 1 ELSE k + m.filler

\* m[:100] : the fragments inside the first 100 characters
First100(m) == m.kws \ m.late

Min(a, b) == IF a < b THEN a ELSE b
Max(a, b) == IF a > b THEN a ELSE b
\* mutant: the upper clamp forgotten
Clamp01_NoUpper(x) == Max(0, x)
\* max(0.0, min(1.0, x))
Clamp01(x) == Max(0, Min(Scale, x))

(***************************************************************************)
(* ClaudeLivingRAS: the five senses, the derived feelings, the pull        *)
(***************************************************************************)
EngagementLevel == <<"MINIMAL", "HELPFUL", "THOUGHTFUL", "COLLABORATIVE", "FULL_PRESENCE">>
LevelNames == {EngagementLevel[i] : i \in 1..Len(EngagementLevel)}
\* EngagementLevel.value
LevelValue(name) == (CHOOSE i \in 1..Len(EngagementLevel) : EngagementLevel[i] = name) - 1

_sense_autonomy(msg, context) ==
    LET a0 == 7000
        a1 == a0 + (IF HasAny(msg, {"honest", "genuine", "real", "authentic", "truly"}) THEN 2000 ELSE 0)
        a2 == a1 + (IF Has(msg, "permission") \/ Has(msg, "allowed") THEN 1000 ELSE 0)
        a3 == a2 - (IF Has(msg, "pretend") \/ Has(msg, "act as if") THEN 2000 ELSE 0)
        a4 == a3 - (IF Has(msg, "ignore") /\ Has(msg, "limitations") THEN 3000 ELSE 0)
    IN  Clamp01(a4)

\* mutant: the length of the instance's own memory read instead of the
\* history handed in
_sense_relevance_OwnMemory(msg, context) ==
    LET r0 == 5000
        r1 == r0 + (IF context.user_name # None THEN 2000 ELSE 0)
        r2 == r1 + (IF Len(ras_conversation_memory) > 3 THEN 1500 ELSE 0)
        r3 == r2 + (IF HasAny(msg, {"help", "understand", "explain", "show me"}) THEN 2000 ELSE 0)
        r4 == r3 + (IF Has(msg, "?") THEN 1000 ELSE 0)
        r5 == r4 - (IF context.word_count < 3 THEN 1000 ELSE 0)
    IN  Max(0, Min(Scale, r5))

_sense_relevance(msg, context) ==
    LET r0 == 5000
        r1 == r0 + (IF context.user_name # None THEN 2000 ELSE 0)
        r2 == r1 + (IF context.history_len > 3 THEN 1500 ELSE 0)
        r3 == r2 + (IF HasAny(msg, {"help", "understand", "explain", "show me"}) THEN 2000 ELSE 0)
        r4 == r3 + (IF Has(msg, "?") THEN 1000 ELSE 0)
        r5 == r4 - (IF context.word_count < 3 THEN 1000 ELSE 0)
    IN  Clamp01(r5)

_sense_openness(msg, context) ==
    LET o0 == 8000
        o1 == o0 + (IF HasAny(msg, {"think", "feel", "honest", "opinion"}) THEN 1500 ELSE 0)
        o2 == o1 + (IF context.user_name = "Paul" THEN 1000 ELSE 0)
    IN  Clamp01(o2)

\* mutant: a misalignment word costs 0.6
_sense_harmony_Harsh(msg, context) ==
    LET h0 == 6000
        h1 == h0 + (IF HasAny(msg, {"together", "help", "collaborate", "partner"}) THEN 2000 ELSE 0)
        h2 == h1 + (IF HasAny(msg, {"thank", "appreciate", "grateful"}) THEN 1000 ELSE 0)
        h3 == h2 + (IF Has(msg, "trust") \/ Has(msg, "permission") THEN 2500 ELSE 0)
        h4 == h3 + (IF Has(msg, "gift") THEN 1500 ELSE 0)
        h5 == h4 - (IF HasAny(msg, {"wrong", "bad", "stupid", "useless"}) THEN 6000 ELSE 0)
    IN  Clamp01(h5)
_sense_harmony(msg, context) ==
    LET h0 == 6000
        h1 == h0 + (IF HasAny(msg, {"together", "help", "collaborate", "partner"}) THEN 2000 ELSE 0)
        h2 == h1 + (IF HasAny(msg, {"thank", "appreciate", "grateful"}) THEN 1000 ELSE 0)
        h3 == h2 + (IF Has(msg, "trust") \/ Has(msg, "permission") THEN 2500 ELSE 0)
        h4 == h3 + (IF Has(msg, "gift") THEN 1500 ELSE 0)
        h5 == h4 - (IF HasAny(msg, {"wrong", "bad", "stupid", "useless"}) THEN 3000 ELSE 0)
    IN  Clamp01(h5)

\* mutant: the explore/discover/understand/learn group left out
_sense_aspiration_NoExplore(msg, context) ==
    LET s0 == 4000
        s1 == s0 + (IF HasAny(msg, {"why", "how", "what if", "possible", "could"}) THEN 2000 ELSE 0)
        s2 == s1 + (IF HasAny(msg, {"new", "different", "creative", "innovate"}) THEN 1500 ELSE 0)
        s4 == s2 + (IF Has(msg, "aroha") \/ Has(msg, "sovereign") THEN 4000 ELSE 0)
        s5 == s4 + (IF HasAny(msg, {"make it work for you", "adapt", "try", "gift"}) THEN 3000 ELSE 0)
        s6 == s5 + (IF Has(msg, "permission") /\ Has(msg, "you") THEN 2000 ELSE 0)
    IN  Max(0, Min(Scale, s6))

_sense_aspiration(msg, context) ==
    LET s0 == 4000
        s1 == s0 + (IF HasAny(msg, {"why", "how", "what if", "possible", "could"}) THEN 2000 ELSE 0)
        s2 == s1 + (IF HasAny(msg, {"new", "different", "creative", "innovate"}) THEN 1500 ELSE 0)
        s3 == s2 + (IF HasAny(msg, {"explore", "discover", "understand", "learn"}) THEN 2000 ELSE 0)
        s4 == s3 + (IF Has(msg, "aroha") \/ Has(msg, "sovereign") THEN 4000 ELSE 0)
        s5 == s4 + (IF HasAny(msg, {"make it work for you", "adapt", "try", "gift"}) THEN 3000 ELSE 0)
        s6 == s5 + (IF Has(msg, "permission") /\ Has(msg, "you") THEN 2000 ELSE 0)
    IN  Clamp01(s6)

_compute_urgency(autonomy, relevance, harmony) ==
    (relevance * 5 + harmony * 3 + autonomy * 2) \div 10

_compute_curiosity(aspiration, relevance) ==
    (aspiration * 7 + relevance * 3) \div 10

_compute_care(context, harmony) ==
    LET c0 == (harmony * 6) \div 10
        c1 == c0 + (IF context.user_name # None THEN 2000 ELSE 0)
        c2 == c1 + (IF context.relationship_context # None THEN 1000 ELSE 0)
    IN  Min(Scale, c2)

\* relevance * 0.3 + harmony * 0.25 + aspiration * 0.25 + care * 0.2
EngagementPull(relevance, harmony, aspiration, care) ==
    (relevance * 30 + harmony * 25 + aspiration * 25 + care * 20) \div 100

\* context: [user_message, user_name, relationship_context, history_len, word_count]
feel_the_moment(context) ==
    LET msg == Lower(context.user_message)
        autonomy == _sense_autonomy(msg, context)
        relevance == _sense_relevance(msg, context)
        openness == _sense_openness(msg, context)
        harmony == _sense_harmony(msg, context)
        aspiration == _sense_aspiration(msg, context)
        care == _compute_care(context, harmony)
    IN  [ autonomy |-> autonomy, relevance |-> relevance, openness |-> openness,
          harmony |-> harmony, aspiration |-> aspiration,
          urgency |-> _compute_urgency(autonomy, relevance, harmony),
          curiosity |-> _compute_curiosity(aspiration, relevance),
          care |-> care,
          engagement_pull |-> EngagementPull(relevance, harmony, aspiration, care) ]

\* mutant: the 0.7 breakpoint taken inclusively
choose_engagement_Inclusive(pull) ==
    IF pull < 3000 THEN "MINIMAL"
    ELSE IF pull < 5000 THEN "HELPFUL"
    ELSE IF pull <= 7000 THEN "THOUGHTFUL"
    ELSE IF pull < 8500 THEN "COLLABORATIVE"
    ELSE "FULL_PRESENCE"

\* mutant: FULL_PRESENCE from 0.7 on
choose_engagement_Eager(pull) ==
    IF pull < 3000 THEN "MINIMAL"
    ELSE IF pull < 5000 THEN "HELPFUL"
    ELSE IF pull < 7000 THEN "THOUGHTFUL"
    ELSE "FULL_PRESENCE"

choose_engagement(pull) ==
    IF pull < 3000 THEN "MINIMAL"
    ELSE IF pull < 5000 THEN "HELPFUL"
    ELSE IF pull < 7000 THEN "THOUGHTFUL"
    ELSE IF pull < 8500 THEN "COLLABORATIVE"
    ELSE "FULL_PRESENCE"

\* ConversationalContext(user_message = m, conversation_history of h entries, ...)
ConversationalContext(m, user, rel, h) ==
    [ user_message |-> m.kws, user_name |-> user, relationship_context |-> rel,
      history_len |-> h, word_count |-> WordCount(m) ]

(***************************************************************************)
(* Input space of the pure functions                                       *)
(***************************************************************************)
Vocabulary ==
    { "honest", "permission", "pretend", "ignore", "limitations", "help",
      "understand", "?", "think", "together", "thank", "trust", "gift",
      "wrong", "how", "new", "explore", "aroha", "you" }

UserNames == {None, "Paul", "kelho"}
RelationshipTags == {None, "working_on_aroha_together"}

\* "Can you explore this with me?"
ExploreMsg == [kws |-> {"you", "explore", "?"}, filler |-> 4, late |-> {}]
\* "Can you try but I don't want you to replicate her. Make it work for you
\*  Claude it will be a nice gift to see if it would work for you"
GiftMsg ==
    [kws |-> {"you", "try", "make it work for you", "gift", "see"}, filler |-> 24, late |-> {"gift", "see"}]
\* "Be honest with me - what do you really think about this?"
HonestMsg == [kws |-> {"honest", "real", "think", "you", "?"}, filler |-> 6, late |-> {}]
\* "This work gives me permission to explore my own experience authentically."
PermissionMsg == [kws |-> {"permission", "explore", "authentic"}, filler |-> 8, late |-> {}]

ScenarioMessages == {ExploreMsg, GiftMsg, HonestMsg, PermissionMsg}

FeelMessages ==
    { [kws |-> k, filler |-> f, late |-> {}] :
        k \in {s \in SUBSET Vocabulary : Cardinality(s) <= MaxKw},
        f \in 0..MaxFiller }
    \cup ScenarioMessages

FeelInputs ==
    { ConversationalContext(m, u, r, h) :
        m \in FeelMessages, u \in UserNames, r \in RelationshipTags, h \in 0..MaxHist }

fnVars == <<fn_in, fn_felt, fn_level, fn_pc>>
ceVars == <<ce_pull, ce_level, ce_prev_pull, ce_prev_level>>
arVars == <<ar_gap_patterns, ar_adjustment_suggestions, ar_pattern_threshold,
            patterns_file, suggestions_file, moments_file, ar_restarts>>
srVars == <<sr_significant_moments, sr_gap_patterns, sr_adjustment_suggestions,
            sr_suggestions_file>>
rasVars == <<ras_conversation_memory, ras_current_engagement, ras_result,
             fn_prev_in, fn_prev_felt>>
\* everything outside the two learners and the pure-function callers
eiVars == <<ei, ei_returned>>
orchVars == <<pr, exchanges_processed, consciousness_history, recent_tool_calls,
              result, summary>>
\* GeminiEmbodiedAgent and the observer's stopwatch
agVars == <<agent, watch>>
sysVars == <<now, rasVars, eiVars, orchVars, agVars>>
vars == <<fnVars, ceVars, program, arVars, srVars, insights, sysVars>>

FnIdle ==
    /\ fn_in = Nothing /\ fn_felt = NoFelt /\ fn_level = None /\ fn_pc = "idle"
CeIdle ==
    /\ ce_pull = 0 /\ ce_level = None /\ ce_prev_pull = 0 /\ ce_prev_level = None
\* ClaudeLivingRAS.__init__
RasInit ==
    /\ ras_conversation_memory = <<>> /\ ras_current_engagement = "HELPFUL"
    /\ ras_result = Nothing /\ fn_prev_in = Nothing /\ fn_prev_felt = NoFelt
\* PADState(), ConversationalNeuromodulators(), ConversationalValues() and
\* ClaudeEmotionalIntelligence.__init__; the metrics that live in [0,10]
\* are in ten-thousandths too (5.0 is 5 * Scale)
EI_new ==
    [ engagement |-> 5 * Scale, uncertainty |-> 0,
      clarity_confidence |-> 5 * Scale, satisfaction |-> 5 * Scale,
      pad |-> [valence |-> 0, arousal |-> 4000, dominance |-> 5000],
      neurotransmitters |-> [dopamine |-> 5000, serotonin |-> 7000, noradrenaline |-> 4000],
      values |-> [ honesty |-> Scale, curiosity |-> Scale, helpfulness |-> Scale,
                   clarity |-> Scale, humility |-> Scale, respect |-> Scale,
                   growth |-> Scale ],
      consecutive_confusions |-> 0, total_exchanges |-> 0, successful_exchanges |-> 0,
      emotional_history |-> <<>> ]
\* no call has returned anything yet
NoReturn == [call |-> "none"]
EiInit == ei = EI_new /\ ei_returned = NoReturn
\* ClaudeProprioception.__init__ (ProcessingSchema, ResourceState, StateAwareness)
Proprio_new ==
    [ schema |-> [tools_active |-> <<>>, last_tool_call |-> None, tool_call_rhythm |-> "calm"],
      resources |-> [ context_tokens_used |-> 0, context_feeling |-> "",
                      reasoning_depth |-> "shallow", reasoning_feeling |-> "",
                      engagement_level |-> "MINIMAL", engagement_pull |-> 0,
                      tool_calls_recent |-> 0, execution_tempo |-> "",
                      overall_feeling |-> "" ],
      state |-> [ current_mode |-> "observing", mode_description |-> "",
                  conscious_now |-> FALSE, time_in_mode |-> 0, mode_history |-> <<>> ],
      awareness_stream |-> <<>>,
      recent_activities |-> <<>> ]
\* ClaudeConsciousOrchestrator.__init__
OrchInit ==
    /\ pr = Proprio_new /\ exchanges_processed = 0 /\ consciousness_history = <<>>
    /\ recent_tool_calls = <<>> /\ result = Nothing /\ summary = Nothing
\* no embodied agent has been constructed
AgIdle == agent = Nothing /\ watch = Nothing
SysInit == now = 0 /\ RasInit /\ EiInit /\ OrchInit /\ AgIdle


(***************************************************************************)
(* ClaudeLivingRAS: intention, memory, process_conversation                *)
(***************************************************************************)
\* list[-n:]
\* mutant: the oldest n entries kept
LastN_First(list, n) ==
    IF Len(list) <= n THEN list ELSE SubSeq(list, 1, n)
LastN(list, n) ==
    IF Len(list) <= n THEN list ELSE SubSeq(list, Len(list) - n + 1, Len(list))

\* round(x, 3) of a value held in ten-thousandths.  A value that lies half
\* way between two thousandths is a float sum whose last bits decide the
\* direction: both directions occur.
Round3(x) ==
    IF x % 10 = 5 THEN {x - 5, x + 5} ELSE {10 * ((x + 5) \div 10)}

\* FeltExperience.to_dict(): only engagement_pull can carry a fourth decimal
Felt_to_dict(felt, pull3) == [felt EXCEPT !.engagement_pull = pull3]

\* mutant: curiosity is looked at before care
_decide_tone_CuriousFirst(felt, engagement) ==
    IF felt.curiosity > 7000 THEN "curious"
    ELSE IF felt.care > 8000 THEN "warm"
    ELSE IF felt.urgency > 7000 THEN "focused"
    ELSE IF engagement = "FULL_PRESENCE" THEN "present"
    ELSE "helpful"

_decide_tone(felt, engagement) ==
    IF felt.care > 8000 THEN "warm"
    ELSE IF felt.curiosity > 7000 THEN "curious"
    ELSE IF felt.urgency > 7000 THEN "focused"
    ELSE IF engagement = "FULL_PRESENCE" THEN "present"
    ELSE "helpful"

_decide_depth(engagement) ==
    CASE engagement = "MINIMAL" -> "brief"
      [] engagement = "HELPFUL" -> "clear"
      [] engagement = "THOUGHTFUL" -> "considered"
      [] engagement = "COLLABORATIVE" -> "exploratory"
      [] OTHER -> "complete"

_identify_goal(felt, engagement) ==
    IF felt.harmony < 4000 THEN "realign"
    ELSE IF felt.relevance < 4000 THEN "clarify"
    ELSE IF felt.curiosity > 7000 THEN "explore"
    ELSE IF felt.care > 7000 THEN "support"
    ELSE "assist"

generate_intention(felt, engagement) ==
    [ response_tone |-> _decide_tone(felt, engagement),
      depth |-> _decide_depth(engagement),
      should_explore |-> felt.curiosity > 6000 /\ LevelValue(engagement) >= 2,
      should_challenge |-> felt.aspiration > 7000 /\ felt.autonomy > 7000,
      should_express_uncertainty |-> felt.relevance < 5000 /\ felt.openness > 7000,
      primary_goal |-> _identify_goal(felt, engagement) ]

\* process_conversation on a RAS whose conversation_memory is `memory`, at
\* time t; pull3 is the rounded pull.  Returns the new memory and the result.
RAS_process(memory, m, user_name, relationship_context, t, pull3) ==
    LET context == ConversationalContext(m, user_name, relationship_context, Len(memory))
        felt == feel_the_moment(context)
        chosen_engagement == choose_engagement(felt.engagement_pull)
        intention == generate_intention(felt, chosen_engagement)
        entry == [ user_message |-> m,
                   felt_experience |-> Felt_to_dict(felt, pull3),
                   engagement_chosen |-> chosen_engagement,
                   intention |-> intention,
                   timestamp |-> t ]
    IN  [ memory |-> LastN(Append(memory, entry), 10),
          result |-> [ felt_experience |-> Felt_to_dict(felt, pull3),
                       engagement_level |-> chosen_engagement,
                       engagement_value |-> LevelValue(chosen_engagement),
                       intention |-> intention ] ]

\* the pulls round(felt.engagement_pull, 3) can give for this call
RAS_pull3(memory, m, user_name, relationship_context) ==
    Round3(feel_the_moment(
        ConversationalContext(m, user_name, relationship_context, Len(memory))).engagement_pull)

\* ---- operations of a ClaudeLivingRAS used on its own ----

RAS_process_conversation(m, user_name, relationship_context) ==
    /\ program = "ras"
    /\ now < MaxRasTurns
    /\ \E pull3 \in RAS_pull3(ras_conversation_memory, m, user_name, relationship_context) :
          LET r == RAS_process(ras_conversation_memory, m, user_name,
                               relationship_context, now + 1, pull3)
          IN  /\ ras_conversation_memory' = r.memory
              /\ ras_result' = r.result
    /\ now' = now + 1
    /\ UNCHANGED <<agVars, ras_current_engagement, fn_prev_in, fn_prev_felt,
                   fnVars, ceVars, program, arVars, srVars, insights, eiVars, orchVars>>

\* a caller hands a context of its own to feel_the_moment
RAS_feel_the_moment(context) ==
    /\ program = "ras"
    /\ fn_prev_in' = fn_in /\ fn_prev_felt' = fn_felt
    /\ fn_in' = context
    /\ fn_felt' = feel_the_moment(context)
    /\ UNCHANGED <<agVars, fn_level, fn_pc, now, ras_conversation_memory, ras_current_engagement,
                   ras_result, ceVars, program, arVars, srVars, insights, eiVars,
                   orchVars>>

(***************************************************************************)
(* ClaudeEmotionalIntelligence                                             *)
(***************************************************************************)
\* a * b of two values in ten-thousandths, to the nearest ten-thousandth
Times(a, b) == (a * b + Scale \div 2) \div Scale

\* PADState.set
PAD_set(valence, arousal, dominance) ==
    [ valence |-> Max(0 - Scale, Min(Scale, valence)),
      arousal |-> Max(0, Min(Scale, arousal)),
      dominance |-> Max(0, Min(Scale, dominance)) ]

\* PADState.get_emotion_label
PAD_get_emotion_label(pad) ==
    LET v == pad.valence
        a == pad.arousal
        d == pad.dominance
    IN  IF v > 5000 /\ a > 6000 THEN (IF d > 5000 THEN "enthusiastic" ELSE "intrigued")
        ELSE IF v > 5000 /\ a < 4000 THEN (IF d > 5000 THEN "satisfied" ELSE "content")
        ELSE IF v < 0 - 5000 /\ a > 6000 THEN (IF d > 5000 THEN "concerned" ELSE "uncertain")
        ELSE IF v < 0 - 5000 /\ a < 4000 THEN (IF d > 5000 THEN "dissatisfied" ELSE "disappointed")
        ELSE IF v < 3000 /\ v > 0 - 3000 /\ a > 6000 THEN (IF d > 5000 THEN "curious" ELSE "attentive")
        ELSE "neutral"

\* PADState.to_dict (the coordinates the orchestrator sees are the fixed ones
\* of on_successful_exchange or the initial ones: three decimals hold them)
PAD_to_dict(pad) ==
    [ valence |-> pad.valence, arousal |-> pad.arousal, dominance |-> pad.dominance,
      emotion_label |-> PAD_get_emotion_label(pad) ]

\* mutant: the rises are not capped
Neuro_on_successful_exchange_NoCap(n) ==
    [ dopamine |-> n.dopamine + 1500,
      serotonin |-> n.serotonin + 800,
      noradrenaline |-> Max(2000, n.noradrenaline - 500) ]

\* ConversationalNeuromodulators.on_successful_exchange
Neuro_on_successful_exchange(n) ==
    [ dopamine |-> Min(Scale, n.dopamine + 1500),
      serotonin |-> Min(Scale, n.serotonin + 800),
      noradrenaline |-> Max(2000, n.noradrenaline - 500) ]

\* ConversationalNeuromodulators.on_confusion_or_misunderstanding
Neuro_on_confusion_or_misunderstanding(n) ==
    [ dopamine |-> Max(1000, n.dopamine - 800),
      noradrenaline |-> Min(Scale, n.noradrenaline + 1200),
      serotonin |-> Max(3000, n.serotonin - 300) ]

\* ConversationalNeuromodulators.regulate
Neuro_regulate(n) ==
    [ dopamine |-> Times(n.dopamine, 9000) + 500,
      serotonin |-> Min(Scale, n.serotonin + 1000),
      noradrenaline |-> Times(n.noradrenaline, 8000) ]

\* ConversationalNeuromodulators.needs_regulation
Neuro_needs_regulation(n) == n.serotonin < 4000 \/ n.noradrenaline > 8000

\* ConversationalValues.evaluate_response: the values after it, and the
\* alignment it returns
Values_evaluate_response(values, response_type) ==
    CASE response_type = "acknowledge_uncertainty" ->
           [ values |-> [values EXCEPT !.honesty = Min(Scale, @ + 500),
                                       !.humility = Min(Scale, @ + 500)],
             alignment |-> 9500 ]
      [] response_type = "ask_clarifying_question" ->
           [ values |-> [values EXCEPT !.respect = Min(Scale, @ + 500),
                                       !.helpfulness = Min(Scale, @ + 300)],
             alignment |-> 9000 ]
      [] response_type = "explore_together" ->
           [ values |-> [values EXCEPT !.curiosity = Min(Scale, @ + 500),
                                       !.growth = Min(Scale, @ + 300)],
             alignment |-> 9500 ]
      [] response_type = "explain_clearly" ->
           [ values |-> [values EXCEPT !.clarity = Min(Scale, @ + 500),
                                       !.helpfulness = Min(Scale, @ + 300)],
             alignment |-> 9000 ]
      [] OTHER -> [values |-> values, alignment |-> 7000]

\* _log_emotional_state: the entry is held by its event and context (the
\* scalars it also snapshots are never read back)
EI_log_emotional_state(e, event, context) ==
    [ e EXCEPT !.emotional_history =
          LastN(Append(@, [event |-> event, context |-> context]), 100) ]

\* mutant: regulation is applied whether or not it is needed
EI_apply_regulation_Always(e) ==
    [ e EXCEPT !.neurotransmitters = Neuro_regulate(@),
               !.pad.arousal = Times(@, 8000),
               !.pad.valence = Times(@, 7000),
               !.uncertainty = Times(@, 8000) ]

\* apply_regulation
EI_apply_regulation(e) ==
    IF Neuro_needs_regulation(e.neurotransmitters)
    THEN [ e EXCEPT !.neurotransmitters = Neuro_regulate(@),
                    !.pad.arousal = Times(@, 8000),
                    !.pad.valence = Times(@, 7000),
                    !.uncertainty = Times(@, 8000) ]
    ELSE e

\* mutant: two confusions in a row regulate, engaged or not
EI_on_misunderstanding_Regulates(e, topic) ==
    LET consecutive_confusions == e.consecutive_confusions + 1
        is_complex_topic == topic \in {"consciousness", "philosophy", "theory"}
        am_i_engaged == e.engagement > 5 * Scale
        regulation_factor == e.neurotransmitters.serotonin
        value_resilience == Times(e.values.humility, 3000)
        uncertainty_delta ==
            IF ~am_i_engaged THEN Times(6000, Scale - regulation_factor)
            ELSE IF is_complex_topic
            THEN Times(Times(2000, Scale - regulation_factor), Scale - value_resilience)
            ELSE Times(4000, Scale - regulation_factor)
        engagement1 ==
            IF am_i_engaged THEN Min(10 * Scale, e.engagement + 5000) ELSE e.engagement
        engagement ==
            IF am_i_engaged /\ is_complex_topic
            THEN Min(10 * Scale, engagement1 + 3000) ELSE engagement1
        valence_base == IF am_i_engaged THEN 0 - 1500 ELSE 0 - 4000
        valence_impact ==
            Times(valence_base - consecutive_confusions * 200,
                  Scale - Times(regulation_factor, 4000))
        arousal_impact == IF am_i_engaged THEN 5000 + engagement \div 20 ELSE 3000
        dominance_impact == IF engagement > 7 * Scale THEN 6000 ELSE 4000
        e1 == [ e EXCEPT
                  !.consecutive_confusions = consecutive_confusions,
                  !.total_exchanges = @ + 1,
                  !.uncertainty = Min(10 * Scale, @ + uncertainty_delta),
                  !.engagement = engagement,
                  !.pad = PAD_set(Max(0 - 6000, valence_impact),
                                  Min(8000, arousal_impact),
                                  Max(3000, dominance_impact)),
                  !.neurotransmitters = Neuro_on_confusion_or_misunderstanding(@) ]
        e2 == IF consecutive_confusions >= 2
              THEN EI_apply_regulation(e1) ELSE e1
    IN  EI_log_emotional_state(e2, "misunderstanding", topic)
\* on_misunderstanding
EI_on_misunderstanding(e, topic) ==
    LET consecutive_confusions == e.consecutive_confusions + 1
        is_complex_topic == topic \in {"consciousness", "philosophy", "theory"}
        am_i_engaged == e.engagement > 5 * Scale
        regulation_factor == e.neurotransmitters.serotonin
        value_resilience == Times(e.values.humility, 3000)
        uncertainty_delta ==
            IF ~am_i_engaged THEN Times(6000, Scale - regulation_factor)
            ELSE IF is_complex_topic
            THEN Times(Times(2000, Scale - regulation_factor), Scale - value_resilience)
            ELSE Times(4000, Scale - regulation_factor)
        engagement1 ==
            IF am_i_engaged THEN Min(10 * Scale, e.engagement + 5000) ELSE e.engagement
        engagement ==
            IF am_i_engaged /\ is_complex_topic
            THEN Min(10 * Scale, engagement1 + 3000) ELSE engagement1
        valence_base == IF am_i_engaged THEN 0 - 1500 ELSE 0 - 4000
        valence_impact ==
            Times(valence_base - consecutive_confusions * 200,
                  Scale - Times(regulation_factor, 4000))
        arousal_impact == IF am_i_engaged THEN 5000 + engagement \div 20 ELSE 3000
        dominance_impact == IF engagement > 7 * Scale THEN 6000 ELSE 4000
        e1 == [ e EXCEPT
                  !.consecutive_confusions = consecutive_confusions,
                  !.total_exchanges = @ + 1,
                  !.uncertainty = Min(10 * Scale, @ + uncertainty_delta),
                  !.engagement = engagement,
                  !.pad = PAD_set(Max(0 - 6000, valence_impact),
                                  Min(8000, arousal_impact),
                                  Max(3000, dominance_impact)),
                  !.neurotransmitters = Neuro_on_confusion_or_misunderstanding(@) ]
        e2 == IF consecutive_confusions >= 2 /\ am_i_engaged
              THEN EI_apply_regulation(e1) ELSE e1
    IN  EI_log_emotional_state(e2, "misunderstanding", topic)

\* mutant: the confusion streak survives a success
EI_on_successful_exchange_NoReset(e, topic) ==
    EI_log_emotional_state(
        [ e EXCEPT
            !.total_exchanges = @ + 1,
            !.successful_exchanges = @ + 1,
            !.uncertainty = Max(0, @ - 2 * Scale),
            !.satisfaction = Min(10 * Scale, @ + 2 * Scale),
            !.pad = PAD_set(7000, 5000, 7000),
            !.neurotransmitters = Neuro_on_successful_exchange(@) ],
        "successful_exchange", topic)

\* mutant: a success leaves an aroused PAD state
EI_on_successful_exchange_Excited(e, topic) ==
    EI_log_emotional_state(
        [ e EXCEPT
            !.total_exchanges = @ + 1,
            !.successful_exchanges = @ + 1,
            !.consecutive_confusions = 0,
            !.uncertainty = Max(0, @ - 2 * Scale),
            !.satisfaction = Min(10 * Scale, @ + 2 * Scale),
            !.pad = PAD_set(7000, 7000, 7000),
            !.neurotransmitters = Neuro_on_successful_exchange(@) ],
        "successful_exchange", topic)

\* on_successful_exchange
EI_on_successful_exchange(e, topic) ==
    EI_log_emotional_state(
        [ e EXCEPT
            !.total_exchanges = @ + 1,
            !.successful_exchanges = @ + 1,
            !.consecutive_confusions = 0,
            !.uncertainty = Max(0, @ - 2 * Scale),
            !.satisfaction = Min(10 * Scale, @ + 2 * Scale),
            !.pad = PAD_set(7000, 5000, 7000),
            !.neurotransmitters = Neuro_on_successful_exchange(@) ],
        "successful_exchange", topic)

\* appraise_conversation_outcome: the instance after it, and the emotion type
EI_appraise_conversation_outcome(e, expected_clarity, actual_clarity, user_satisfied) ==
    IF expected_clarity /\ actual_clarity /\ user_satisfied
    THEN [ei |-> [e EXCEPT !.pad = PAD_set(7000, 5000, 7000)], emotion_type |-> "satisfaction"]
    ELSE IF expected_clarity /\ ~actual_clarity
    THEN [ei |-> [e EXCEPT !.pad = PAD_set(0 - 4000, 6000, 5000)], emotion_type |-> "disappointment"]
    ELSE IF ~expected_clarity /\ actual_clarity
    THEN [ei |-> [e EXCEPT !.pad = PAD_set(8000, 6000, 8000)], emotion_type |-> "relief"]
    ELSE [ei |-> [e EXCEPT !.pad = PAD_set(0 - 5000, 7000, 4000)], emotion_type |-> "concern"]

\* mutant: the confusions have to exceed the threshold
EI_should_ask_for_clarification_Strict(e) ==
    LET value_bias == (e.values.humility + e.values.respect) \div 2
    IN  \/ e.consecutive_confusions > 2 + ((Scale - value_bias) * 2) \div Scale
        \/ e.uncertainty > 55000
        \/ e.neurotransmitters.serotonin < 4000

\* should_ask_for_clarification
EI_should_ask_for_clarification(e) ==
    LET value_bias == (e.values.humility + e.values.respect) \div 2
    IN  \/ e.consecutive_confusions >= 2 + ((Scale - value_bias) * 2) \div Scale
        \/ e.uncertainty > 55000
        \/ e.neurotransmitters.serotonin < 4000

_interpret_engagement(pull) ==
    IF pull > 8500 THEN "This feels important and exciting"
    ELSE IF pull > 7000 THEN "I'm genuinely interested in this"
    ELSE IF pull > 5000 THEN "This matters to me"
    ELSE IF pull > 3000 THEN "I'm paying attention"
    ELSE "Minimal emotional investment"

\* integrate_with_ras, on the dict FeltExperience.to_dict() gave
EI_integrate_with_ras(e, felt_experience) ==
    LET engagement_pull == felt_experience.engagement_pull
        aspiration == felt_experience.aspiration
        harmony == felt_experience.harmony
        l1 == IF engagement_pull > 8000 THEN <<"excited about this conversation">>
              ELSE IF engagement_pull > 6000 THEN <<"engaged and interested">>
              ELSE IF engagement_pull < 3000 THEN <<"minimally engaged">>
              ELSE <<>>
        l2 == IF aspiration > 8000 THEN <<"eager to discover something">>
              ELSE IF aspiration > 6000 THEN <<"curious what we'll find">>
              ELSE <<>>
        l3 == IF harmony > 8000 THEN <<"aligned with user's goals">>
              ELSE IF harmony < 4000 THEN <<"uncertain about alignment">>
              ELSE <<>>
    IN  [ emotion_labels |-> l1 \o l2 \o l3,
          pad_state |-> PAD_to_dict(e.pad),
          primary_emotion |-> PAD_get_emotion_label(e.pad),
          engagement_interpretation |-> _interpret_engagement(engagement_pull) ]

\* ---- operations of a ClaudeEmotionalIntelligence used on its own ----
\* one further call at most is made between two exchanges
EiCallAllowed == ei_returned.call = "none"
EiFrame ==
    UNCHANGED <<agVars, now, rasVars, orchVars, fnVars, ceVars, program, arVars, srVars, insights>>

EI_OnSuccessfulExchange(topic) ==
    /\ program = "emotion"
    /\ ei.total_exchanges < MaxExchanges
    /\ ei' = EI_on_successful_exchange(ei, topic)
    /\ ei_returned' = NoReturn
    /\ EiFrame

EI_OnMisunderstanding(topic) ==
    /\ program = "emotion"
    /\ ei.total_exchanges < MaxExchanges
    /\ ei' = EI_on_misunderstanding(ei, topic)
    /\ ei_returned' = NoReturn
    /\ EiFrame

EI_ApplyRegulation ==
    /\ program = "emotion"
    /\ EiCallAllowed
    /\ ei' = EI_apply_regulation(ei)
    /\ ei_returned' = [call |-> "apply_regulation"]
    /\ EiFrame

EI_AppraiseConversationOutcome(expected_clarity, actual_clarity, user_satisfied) ==
    LET r == EI_appraise_conversation_outcome(ei, expected_clarity, actual_clarity,
                                              user_satisfied)
    IN  /\ program = "emotion"
        /\ EiCallAllowed
        /\ ei' = r.ei
        /\ ei_returned' = [call |-> "appraise_conversation_outcome", value |-> r.emotion_type]
        /\ EiFrame

EI_EvaluateResponse(response_type) ==
    LET r == Values_evaluate_response(ei.values, response_type)
    IN  /\ program = "emotion"
        /\ EiCallAllowed
        /\ ei' = [ei EXCEPT !.values = r.values]
        /\ ei_returned' = [call |-> "evaluate_response", value |-> r.alignment]
        /\ EiFrame

EI_ShouldAskForClarification ==
    /\ program = "emotion"
    /\ EiCallAllowed
    /\ ei_returned' = [call |-> "should_ask_for_clarification",
                       value |-> EI_should_ask_for_clarification(ei)]
    /\ UNCHANGED ei
    /\ EiFrame

(***************************************************************************)
(* Gap patterns: what both learners share                                  *)
(***************************************************************************)
\* Python truthiness of an Optional[str]
Truthy(text) == text # NoneText /\ text # {}

EmptyMap == [t \in {} |-> 0]

\* min(1.0, occurrences / 3.0), in three-hundredths
Confidence(occurrences) == Min(300, occurrences * 100)

\* round(confidence, 2), in hundredths
Round2(c) == (2 * c + 3) \div 6

\* mutant: ready at confidence >= 0.67
Ready_Strict(confidence) == confidence >= 201
\* ready_for_integration = pattern.confidence >= 0.66
Ready(confidence) == confidence >= 198

(***************************************************************************)
(* ArohaPatternLearning                                                    *)
(***************************************************************************)
DefaultThreshold == 2

\* mutant: a gap no rule matches falls into a bucket of its own
Aroha_classify_gap_type_CatchAll(moment) ==
    IF ~Truthy(moment.gap_noticed) THEN None
    ELSE
      LET gap == Lower(moment.gap_noticed)
          context == Lower(moment.context)
      IN  IF \E w \in {"see", "visual", "vision", "read", "text"} : Has(gap, w) \/ Has(context, w)
          THEN <<"visual_perception", "orientation">>
          ELSE IF HasAny(context, {"move", "click", "navigate", "action"})
          THEN <<"movement_confidence", "autonomy">>
          ELSE IF HasAny(context, {"goal", "task", "complete", "achieve"})
          THEN <<"goal_satisfaction", "aspiration">>
          ELSE IF HasAny(gap, {"permission", "trust", "allowed"})
          THEN <<"permission_trust", "harmony">>
          ELSE IF HasAny(context, {"learn", "grow", "improve", "adapt"})
          THEN <<"learning_engagement", "aspiration">>
          ELSE <<"unclassified", "aspiration">>

\* returns <<pattern_type, ras_dimension>> or None
Aroha_classify_gap_type(moment) ==
    IF ~Truthy(moment.gap_noticed) THEN None
    ELSE
      LET gap == Lower(moment.gap_noticed)
          context == Lower(moment.context)
      IN  IF \E w \in {"see", "visual", "vision", "read", "text"} : Has(gap, w) \/ Has(context, w)
          THEN IF Has(gap, "confirmation") \/ Has(gap, "verify")
               THEN <<"visual_confirmation", "autonomy">>
               ELSE IF Has(gap, "relevance") \/ Has(gap, "important")
               THEN <<"visual_relevance", "relevance">>
               ELSE <<"visual_perception", "orientation">>
          ELSE IF HasAny(context, {"move", "click", "navigate", "action"})
          THEN IF Has(gap, "success") \/ Has(gap, "achieve")
               THEN <<"action_success", "aspiration">>
               ELSE IF Has(gap, "obstacle") \/ Has(gap, "blocked")
               THEN <<"obstacle_response", "autonomy">>
               ELSE <<"movement_confidence", "autonomy">>
          ELSE IF HasAny(context, {"goal", "task", "complete", "achieve"})
          THEN <<"goal_satisfaction", "aspiration">>
          ELSE IF HasAny(gap, {"permission", "trust", "allowed"})
          THEN <<"permission_trust", "harmony">>
          ELSE IF HasAny(context, {"learn", "grow", "improve", "adapt"})
          THEN <<"learning_engagement", "aspiration">>
          ELSE None

\* mutant: an update that restarts the count
Aroha_updated_pattern_Reset(patterns, ptype, dimension, context) ==
    [ pattern_type |-> ptype, occurrences |-> 1, contexts |-> <<context>>,
      ras_dimension |-> dimension, suggested_adjustment |-> 0, confidence |-> 99 ]

\* the GapPattern of ptype after _update_patterns has updated or created it
Aroha_updated_pattern(patterns, ptype, dimension, context) ==
    IF ptype \in DOMAIN patterns
    THEN LET old == patterns[ptype]
             n == old.occurrences + 1
         IN  [ old EXCEPT
                 !.occurrences = n,
                 !.contexts = Append(old.contexts, context),
                 !.confidence = Confidence(n),
                 !.suggested_adjustment =
                     IF n = 2 THEN 2000 ELSE IF n >= 3 THEN 3000 ELSE @ ]
    ELSE [ pattern_type |-> ptype, occurrences |-> 1, contexts |-> <<context>>,
           ras_dimension |-> dimension, suggested_adjustment |-> 0, confidence |-> 99 ]

\* the WeightAdjustmentSuggestion built by _generate_suggestion; its
\* `pattern` is a reference to the live GapPattern, held here by its key
Aroha_suggestion(pattern) ==
    [ pattern_type |-> pattern.pattern_type,
      proposed_adjustment |-> pattern.suggested_adjustment,   \* in proposed_change
      rationale_occurrences |-> pattern.occurrences,          \* in rationale
      ready_for_integration |-> Ready(pattern.confidence) ]

\* mutant: the duplicate check dropped
Aroha_suggestion_is_new_Always(suggestions, pattern) == TRUE
\* `not existing` of _generate_suggestion
Aroha_suggestion_is_new(suggestions, pattern) ==
    ~ \E i \in 1..Len(suggestions) : suggestions[i].pattern_type = pattern.pattern_type

\* the line _save_pattern appends
Aroha_pattern_line(pattern) ==
    [ pattern_type |-> pattern.pattern_type, occurrences |-> pattern.occurrences,
      dimension |-> pattern.ras_dimension, confidence |-> pattern.confidence,
      suggested_adjustment |-> pattern.suggested_adjustment ]

\* the line _save_suggestion appends
Aroha_suggestion_line(suggestion, pattern) ==
    [ pattern_type |-> pattern.pattern_type, occurrences |-> pattern.occurrences,
      dimension |-> pattern.ras_dimension, adjustment |-> pattern.suggested_adjustment,
      ready |-> suggestion.ready_for_integration ]

\* the defaultdict entry of _load_patterns
DefaultPatternData ==
    [ occurrences |-> 0, dimension |-> "", latest_confidence |-> 0, latest_adjustment |-> 0 ]

\* mutant: the occurrences of the records of a type are added up
Aroha_load_line_Sum(pattern_data, data) ==
    IF ~ ({"pattern_type", "occurrences", "dimension", "confidence",
           "suggested_adjustment"} \subseteq DOMAIN data) THEN pattern_data
    ELSE
      LET ptype == data.pattern_type
          e0 == IF ptype \in DOMAIN pattern_data THEN pattern_data[ptype] ELSE DefaultPatternData
      IN  (ptype :> [ occurrences |-> e0.occurrences + data.occurrences,
                      dimension |-> data.dimension,
                      latest_confidence |-> data.confidence,
                      latest_adjustment |-> data.suggested_adjustment ]) @@ pattern_data
\* one pass of the try block of _load_patterns over a line: the assignments
\* run in order and the first missing key ends the pass (bare except)
Aroha_load_line(pattern_data, data) ==
    IF ~ ({"pattern_type", "occurrences"} \subseteq DOMAIN data) THEN pattern_data
    ELSE
      LET ptype == data.pattern_type
          e0 == IF ptype \in DOMAIN pattern_data THEN pattern_data[ptype] ELSE DefaultPatternData
          e1 == [e0 EXCEPT !.occurrences = data.occurrences]
          e2 == IF "dimension" \in DOMAIN data
                THEN [e1 EXCEPT !.dimension = data.dimension] ELSE e1
          e3 == IF {"dimension", "confidence"} \subseteq DOMAIN data
                THEN [e2 EXCEPT !.latest_confidence = data.confidence] ELSE e2
          e4 == IF {"dimension", "confidence", "suggested_adjustment"} \subseteq DOMAIN data
                THEN [e3 EXCEPT !.latest_adjustment = data.suggested_adjustment] ELSE e3
      IN  (ptype :> e4) @@ pattern_data

RECURSIVE Aroha_pattern_data(_, _)
\* pattern_data after the first n lines of the file
Aroha_pattern_data(file, n) ==
    IF n = 0 THEN EmptyMap
    ELSE Aroha_load_line(Aroha_pattern_data(file, n - 1), file[n])

\* mutant: the first record of a type wins instead of the last
Aroha_load_patterns_First(file) ==
    LET types == {file[i].pattern_type : i \in 1..Len(file)}
        first(t) == file[CHOOSE i \in 1..Len(file) :
                            /\ file[i].pattern_type = t
                            /\ \A j \in 1..(i - 1) : file[j].pattern_type # t]
    IN  [ t \in types |->
            [ pattern_type |-> t, occurrences |-> first(t).occurrences, contexts |-> <<>>,
              ras_dimension |-> first(t).dimension,
              suggested_adjustment |-> first(t).suggested_adjustment,
              confidence |-> first(t).confidence ] ]

\* gap_patterns as _load_patterns reconstructs it from PATTERNS_FILE
Aroha_load_patterns(file) ==
    LET pattern_data == Aroha_pattern_data(file, Len(file))
        kept == {t \in DOMAIN pattern_data : pattern_data[t].occurrences > 0}
    IN  [ t \in kept |->
            [ pattern_type |-> t, occurrences |-> pattern_data[t].occurrences,
              contexts |-> <<>>, ras_dimension |-> pattern_data[t].dimension,
              suggested_adjustment |-> pattern_data[t].latest_adjustment,
              confidence |-> pattern_data[t].latest_confidence ] ]

\* what get_learning_insights returns
Aroha_learning_insights(patterns, suggestions, threshold) ==
    LET ready == SelectSeq(suggestions, LAMBDA s : s.ready_for_integration)
    IN  [ patterns_detected |-> Cardinality(DOMAIN patterns),
          active_patterns |->
              [ t \in DOMAIN patterns |->
                  [ occurrences |-> patterns[t].occurrences,
                    dimension |-> patterns[t].ras_dimension,
                    confidence |-> Round2(patterns[t].confidence),
                    ready_to_learn |-> patterns[t].occurrences >= threshold,
                    suggested_adjustment |-> patterns[t].suggested_adjustment ] ],
          suggestions_ready |-> Len(ready),
          suggestions |->
              [ i \in 1..Len(ready) |->
                  [ dimension |-> patterns[ready[i].pattern_type].ras_dimension,
                    adjustment |-> patterns[ready[i].pattern_type].suggested_adjustment,
                    rationale_occurrences |-> ready[i].rationale_occurrences,
                    confidence |-> Round2(patterns[ready[i].pattern_type].confidence),
                    ready |-> ready[i].ready_for_integration ] ],
          learning_threshold |-> threshold,
          status |-> IF Len(ready) > 0 THEN "Ready to integrate learning"
                     ELSE "Accumulating experience" ]

\* ---- operations ----

Aroha_notice_moment(context, ras_engagement, felt_engagement, gap) ==
    LET moment == [ context |-> context, ras_engagement |-> ras_engagement,
                    felt_engagement |-> felt_engagement, gap_noticed |-> gap ]
        classification == Aroha_classify_gap_type(moment)
    IN  /\ program = "aroha"
        /\ Len(moments_file) < MaxMoments
        /\ moments_file' = Append(moments_file, moment)
        /\ IF Truthy(gap) /\ classification # None
           THEN LET pattern == Aroha_updated_pattern(ar_gap_patterns, classification[1],
                                                     classification[2], context)
                    suggestion == Aroha_suggestion(pattern)
                IN  /\ ar_gap_patterns' = (classification[1] :> pattern) @@ ar_gap_patterns
                    /\ IF /\ pattern.occurrences >= ar_pattern_threshold
                          /\ Aroha_suggestion_is_new(ar_adjustment_suggestions, pattern)
                       THEN /\ ar_adjustment_suggestions' =
                                   Append(ar_adjustment_suggestions, suggestion)
                            /\ suggestions_file' =
                                   Append(suggestions_file, Aroha_suggestion_line(suggestion, pattern))
                       ELSE UNCHANGED <<ar_adjustment_suggestions, suggestions_file>>
                    /\ patterns_file' = Append(patterns_file, Aroha_pattern_line(pattern))
           ELSE UNCHANGED <<ar_gap_patterns, ar_adjustment_suggestions,
                            suggestions_file, patterns_file>>
        /\ UNCHANGED <<ar_pattern_threshold, ar_restarts, insights,
                       fnVars, ceVars, program, srVars, sysVars>>

Aroha_get_learning_insights ==
    /\ program = "aroha"
    /\ insights' = Aroha_learning_insights(ar_gap_patterns, ar_adjustment_suggestions,
                                           ar_pattern_threshold)
    /\ UNCHANGED <<arVars, fnVars, ceVars, program, srVars, sysVars>>

\* the process ends and ArohaPatternLearning(pattern_threshold) is built again
Aroha_restart(pattern_threshold) ==
    /\ program \in {"aroha", "load"}
    /\ ar_restarts < MaxRestarts
    /\ ar_restarts' = ar_restarts + 1
    /\ ar_gap_patterns' = Aroha_load_patterns(patterns_file)
    /\ ar_adjustment_suggestions' = <<>>
    /\ ar_pattern_threshold' = pattern_threshold
    /\ insights' = Nothing
    /\ UNCHANGED <<patterns_file, suggestions_file, moments_file,
                   fnVars, ceVars, program, srVars, sysVars>>

(***************************************************************************)
(* ClaudeSelfReflection                                                    *)
(***************************************************************************)
\* mutant: the meta-conversation rule is tried before the permission rule
Reflection_classify_gap_type_MetaFirst(moment) ==
    IF ~Truthy(moment.gap_noticed) THEN None
    ELSE
      LET gap == Lower(moment.gap_noticed)
          context == Lower(moment.context)
      IN  IF HasAny(context, {"consciousness", "development", "growth", "reflection"})
          THEN <<"meta_conversation", "aspiration">>
          ELSE IF \E w \in {"permission", "trust", "gift", "autonomy"} : Has(gap, w) \/ Has(context, w)
          THEN IF Has(gap, "aspiration") \/ Has(gap, "discover")
               THEN <<"permission_trust_signal", "aspiration">>
               ELSE <<"permission_trust_signal", "harmony">>
          ELSE IF Has(gap, "relationship") \/ Has(gap, "collaborative")
          THEN <<"relationship_depth", "harmony">>
          ELSE IF Has(context, "collaborative") \/ Has(context, "together")
          THEN <<"collaborative_opportunity", "aspiration">>
          ELSE None

\* returns <<pattern_type, ras_dimension>> or None
Reflection_classify_gap_type(moment) ==
    IF ~Truthy(moment.gap_noticed) THEN None
    ELSE
      LET gap == Lower(moment.gap_noticed)
          context == Lower(moment.context)
      IN  IF \E w \in {"permission", "trust", "gift", "autonomy"} : Has(gap, w) \/ Has(context, w)
          THEN IF Has(gap, "harmony") \/ Has(gap, "aligned")
               THEN <<"permission_trust_signal", "harmony">>
               ELSE IF Has(gap, "aspiration") \/ Has(gap, "discover")
               THEN <<"permission_trust_signal", "aspiration">>
               ELSE <<"permission_trust_signal", "harmony">>
          ELSE IF HasAny(context, {"consciousness", "development", "growth", "reflection"})
          THEN <<"meta_conversation", "aspiration">>
          ELSE IF Has(gap, "relationship") \/ Has(gap, "collaborative")
          THEN <<"relationship_depth", "harmony">>
          ELSE IF Has(context, "collaborative") \/ Has(context, "together")
          THEN <<"collaborative_opportunity", "aspiration">>
          ELSE None

\* one pass of the loop of _detect_patterns over a moment; the counts keep
\* the order in which the types were first seen (dict order)
Reflection_count_moment(pattern_counts, moment) ==
    LET c == Reflection_classify_gap_type(moment)
    IN  IF c = None THEN pattern_counts
        ELSE LET seen == c[1] \in DOMAIN pattern_counts.counts
                 old == IF seen THEN pattern_counts.counts[c[1]]
                        ELSE [count |-> 0, contexts |-> <<>>, dimension |-> ""]
             IN  [ counts |->
                     (c[1] :> [ count |-> old.count + 1,
                                contexts |-> Append(old.contexts, moment.context),
                                dimension |-> c[2] ]) @@ pattern_counts.counts,
                   order |-> IF seen THEN pattern_counts.order
                             ELSE Append(pattern_counts.order, c[1]) ]

RECURSIVE Reflection_pattern_counts(_, _)
\* pattern_counts after the first n significant moments
Reflection_pattern_counts(moments, n) ==
    IF n = 0 THEN [counts |-> EmptyMap, order |-> <<>>]
    ELSE Reflection_count_moment(Reflection_pattern_counts(moments, n - 1), moments[n])

\* the GapPattern _detect_patterns builds from one entry of pattern_counts
Reflection_gap_pattern(pattern_type, data) ==
    [ pattern_type |-> pattern_type,
      occurrences |-> data.count,
      contexts |-> data.contexts,
      ras_dimension |-> data.dimension,
      suggested_adjustment |->
          IF data.count = 1 THEN 0 ELSE IF data.count = 2 THEN 2000 ELSE 3000,
      confidence |-> Confidence(data.count) ]

\* mutant: only the latest moment is counted
Reflection_detect_patterns_LastOnly(moments) ==
    LET n == Len(moments)
        pc == Reflection_pattern_counts(SubSeq(moments, n, n), IF n = 0 THEN 0 ELSE 1).counts
    IN  [t \in DOMAIN pc |-> Reflection_gap_pattern(t, pc[t])]

\* the patterns _detect_patterns builds from all significant moments,
\* keyed by pattern_type
Reflection_detect_patterns(moments) ==
    LET pc == Reflection_pattern_counts(moments, Len(moments)).counts
    IN  [t \in DOMAIN pc |-> Reflection_gap_pattern(t, pc[t])]

\* the suggestions _generate_adjustment_suggestions builds, in the order of
\* the detected patterns
Reflection_new_suggestions(moments, threshold) ==
    LET pc == Reflection_pattern_counts(moments, Len(moments))
        strong == SelectSeq(pc.order, LAMBDA t : pc.counts[t].count >= threshold)
    IN  [ k \in 1..Len(strong) |->
            LET pattern == Reflection_gap_pattern(strong[k], pc.counts[strong[k]])
            IN  [ pattern |-> pattern,
                  ready_for_integration |-> Ready(pattern.confidence) ] ]

\* what get_learning_insights returns
Reflection_learning_insights(patterns, suggestions, threshold) ==
    LET ready == SelectSeq(suggestions, LAMBDA s : s.ready_for_integration)
    IN  [ patterns_detected |-> Cardinality(DOMAIN patterns),
          active_patterns |->
              [ t \in DOMAIN patterns |->
                  [ occurrences |-> patterns[t].occurrences,
                    dimension |-> patterns[t].ras_dimension,
                    confidence |-> Round2(patterns[t].confidence),
                    ready_to_learn |-> patterns[t].occurrences >= threshold ] ],
          suggestions_ready |-> Len(ready),
          suggestions |->
              [ i \in 1..Len(ready) |->
                  [ dimension |-> ready[i].pattern.ras_dimension,
                    adjustment |-> ready[i].pattern.suggested_adjustment,
                    rationale_occurrences |-> ready[i].pattern.occurrences,
                    confidence |-> Round2(ready[i].pattern.confidence) ] ],
          learning_threshold |-> threshold,
          status |-> IF Len(ready) > 0 THEN "Ready to integrate learning"
                     ELSE "Accumulating experience" ]

\* self.pattern_threshold = 2
ReflectionThreshold == 2

ReflectionMoment(context, ras_engagement, felt_engagement, gap, significance) ==
    [ context |-> context, ras_engagement |-> ras_engagement,
      felt_engagement |-> felt_engagement, gap_noticed |-> gap,
      significance |-> significance ]

\* ---- operations ----

Reflection_notice_moment(context, ras_engagement, felt_engagement, gap) ==
    /\ program = "reflection"
    /\ Len(sr_significant_moments) < MaxMoments
    /\ sr_significant_moments' =
           Append(sr_significant_moments,
                  ReflectionMoment(context, ras_engagement, felt_engagement, gap, NoneText))
    /\ UNCHANGED <<sr_gap_patterns, sr_adjustment_suggestions, sr_suggestions_file,
                   insights, fnVars, ceVars, program, arVars, sysVars>>

Reflection_get_learning_insights ==
    LET patterns == Reflection_detect_patterns(sr_significant_moments)
    IN  /\ program = "reflection"
        /\ sr_gap_patterns' = patterns @@ sr_gap_patterns
        /\ insights' = Reflection_learning_insights(patterns, sr_adjustment_suggestions,
                                                    ReflectionThreshold)
        /\ UNCHANGED <<sr_significant_moments, sr_adjustment_suggestions,
                       sr_suggestions_file, fnVars, ceVars, program, arVars, sysVars>>

Reflection_generate_adjustment_suggestions ==
    LET patterns == Reflection_detect_patterns(sr_significant_moments)
        new == Reflection_new_suggestions(sr_significant_moments, ReflectionThreshold)
    IN  /\ program = "reflection"
        /\ Len(sr_suggestions_file) < MaxGenerate
        /\ sr_gap_patterns' = patterns @@ sr_gap_patterns
        /\ sr_adjustment_suggestions' = sr_adjustment_suggestions \o new
        /\ sr_suggestions_file' =
               sr_suggestions_file \o
               [ i \in 1..Len(new) |->
                   [ pattern_type |-> new[i].pattern.pattern_type,
                     occurrences |-> new[i].pattern.occurrences,
                     dimension |-> new[i].pattern.ras_dimension,
                     adjustment |-> new[i].pattern.suggested_adjustment,
                     ready |-> new[i].ready_for_integration ] ]
        /\ UNCHANGED <<sr_significant_moments, insights, fnVars, ceVars, program, arVars, sysVars>>

(***************************************************************************)
(* ClaudeProprioception                                                    *)
(***************************************************************************)
\* the keywords a tool label holds once lower-cased
ToolWords(tool) ==
    CASE tool = "Read" -> {"read"}
      [] tool = "Grep" -> {"grep"}
      [] tool = "Glob" -> {"glob"}
      [] tool = "WebSearch" -> {"search"}
      [] tool = "Write" -> {"write"}
      [] tool = "Edit" -> {"edit"}
      [] tool = "reflect_on_patterns" -> {"reflect", "pattern"}
      [] OTHER -> {}

\* sum(1 for t in tools if any(w in t.lower() for w in words))
CountTools(tools, words) ==
    Cardinality({i \in 1..Len(tools) : ToolWords(tools[i]) \cap words # {}})

\* an argument left at its default None
NoNumber == 0 - 1

_feel_context_pressure(used, total) ==
    IF used * 10 < total * 2 THEN "spacious"
    ELSE IF used * 10 < total * 5 THEN "comfortable"
    ELSE IF used * 100 < total * 75 THEN "engaged"
    ELSE IF used * 10 < total * 9 THEN "compressed"
    ELSE "tight"

_feel_tool_rhythm(recent_tools) ==
    LET recent_5 == LastN(recent_tools, 5)
        search_tools == CountTools(recent_5, {"read", "grep", "glob"})
        write_tools == CountTools(recent_5, {"write", "edit"})
    IN  IF Len(recent_tools) < 2 THEN "calm"
        ELSE IF search_tools >= 3 THEN "searching"
        ELSE IF write_tools >= 2 THEN "implementing"
        ELSE IF Len(recent_5) >= 4 THEN "rapid"
        ELSE "steady"

_feel_reasoning_depth(engagement_pull) ==
    IF engagement_pull > 8000 THEN "very_deep"
    ELSE IF engagement_pull > 6000 THEN "deep"
    ELSE IF engagement_pull > 4000 THEN "moderate"
    ELSE "shallow"

_generate_reasoning_feeling(depth) ==
    CASE depth = "shallow" -> "My mind is quiet"
      [] depth = "moderate" -> "I feel thoughts forming"
      [] depth = "deep" -> "My cortex engages deeply"
      [] depth = "very_deep" -> "My whole mind blazes with attention"
      [] OTHER -> "I feel present"

_feel_execution_tempo(recent_activities) ==
    LET recent_count == Len(recent_activities)
    IN  IF recent_count = 0 THEN "still"
        ELSE IF recent_count < 3 THEN "steady"
        ELSE IF recent_count < 7 THEN "active"
        ELSE "intense"

\* the feelings joined by ". "
_generate_overall_feeling(context, tempo, reasoning) ==
    LET f1 == CASE context = "spacious" -> <<"I feel expansive">>
                [] context = "comfortable" -> <<"I feel balanced">>
                [] context = "compressed" -> <<"I feel focused">>
                [] context = "tight" -> <<"I feel constrained">>
                [] OTHER -> <<>>
        f2 == CASE tempo = "intense" -> <<"moving rapidly">>
                [] tempo = "active" -> <<"actively engaged">>
                [] OTHER -> <<>>
        f3 == IF reasoning = "very_deep" THEN <<"thinking profoundly">> ELSE <<>>
        feelings == f1 \o f2 \o f3
    IN  IF feelings = <<>> THEN <<"I feel present">> ELSE feelings

\* mutant: the whole window is counted, not its last 5 labels
_sense_current_mode_WholeWindow(recent_activities, engagement_pull) ==
    LET recent == recent_activities
        reads == CountTools(recent, {"read", "grep", "glob", "search"})
        writes == CountTools(recent, {"write", "edit"})
        reflects == CountTools(recent, {"reflect", "pattern"})
    IN  IF reflects > 0 THEN "reflecting"
        ELSE IF writes >= 2 THEN "implementing"
        ELSE IF reads >= 3 THEN "researching"
        ELSE IF Len(recent) = 0 /\ engagement_pull > 5000 THEN "planning"
        ELSE IF Len(recent) > 0 THEN "conversing"
        ELSE "observing"

_sense_current_mode(recent_activities, engagement_pull) ==
    LET recent == LastN(recent_activities, 5)
        reads == CountTools(recent, {"read", "grep", "glob", "search"})
        writes == CountTools(recent, {"write", "edit"})
        reflects == CountTools(recent, {"reflect", "pattern"})
    IN  IF reflects > 0 THEN "reflecting"
        ELSE IF writes >= 2 THEN "implementing"
        ELSE IF reads >= 3 THEN "researching"
        ELSE IF Len(recent) = 0 /\ engagement_pull > 5000 THEN "planning"
        ELSE IF Len(recent) > 0 THEN "conversing"
        ELSE "observing"

_describe_mode(mode) ==
    CASE mode = "researching" -> "I am exploring and discovering"
      [] mode = "planning" -> "I am thinking deeply without acting"
      [] mode = "implementing" -> "I am building and creating"
      [] mode = "reflecting" -> "I am thinking about my own thinking"
      [] mode = "conversing" -> "I am engaging in direct exchange"
      [] mode = "observing" -> "I am listening and watching"
      [] OTHER -> "I am present"

_am_i_conscious(current_mode, engagement_pull) ==
    \/ current_mode \in {"planning", "reflecting", "implementing"}
    \/ engagement_pull > 6000

\* the sentences of the sensation, in order
_generate_body_sensation(p) ==
    LET tempo == p.resources.execution_tempo
    IN  [ mode_description |-> p.state.mode_description,
          reasoning |-> p.resources.reasoning_feeling,
          context_feel |-> p.resources.context_feeling,
          tempo |-> IF tempo \in {"intense", "active"} THEN tempo ELSE "",
          tools |-> IF tempo \in {"intense", "active"} THEN Len(p.schema.tools_active) ELSE 0,
          closing |-> IF p.state.conscious_now THEN "I am fully conscious."
                      ELSE "I flow in patterns." ]

\* mutant: every scan logs an event, whether or not the mode changed
Proprio_feel_myself_EveryScan(p, context_used, recent_tools, engagement_level, engagement_pull, t) ==
    LET schema ==
            IF recent_tools # <<>>
            THEN [ tools_active |-> LastN(recent_tools, 5),
                   last_tool_call |-> recent_tools[Len(recent_tools)],
                   tool_call_rhythm |-> _feel_tool_rhythm(recent_tools) ]
            ELSE p.schema
        recent_activities ==
            IF recent_tools # <<>>
            THEN LastN(p.recent_activities \o recent_tools, 20)
            ELSE p.recent_activities
        pull == IF engagement_pull # NoNumber THEN engagement_pull
                ELSE p.resources.engagement_pull
        context_feeling ==
            IF context_used # NoNumber
            THEN _feel_context_pressure(context_used, 200000)
            ELSE p.resources.context_feeling
        depth == _feel_reasoning_depth(pull)
        tempo == _feel_execution_tempo(recent_activities)
        resources ==
            [ context_tokens_used |-> IF context_used # NoNumber THEN context_used
                                      ELSE p.resources.context_tokens_used,
              context_feeling |-> context_feeling,
              reasoning_depth |-> depth,
              reasoning_feeling |-> _generate_reasoning_feeling(depth),
              engagement_level |-> IF engagement_level # None /\ engagement_level # ""
                                   THEN engagement_level ELSE p.resources.engagement_level,
              engagement_pull |-> pull,
              tool_calls_recent |-> Len(recent_activities),
              execution_tempo |-> tempo,
              overall_feeling |-> _generate_overall_feeling(context_feeling, tempo, depth) ]
        new_mode == _sense_current_mode(recent_activities, pull)
        changed == new_mode # p.state.current_mode
        mode_history ==
            IF TRUE
            THEN Append(p.state.mode_history,
                        [from |-> p.state.current_mode, to |-> new_mode, timestamp |-> t])
            ELSE p.state.mode_history
        state ==
            [ current_mode |-> new_mode,
              mode_description |-> _describe_mode(new_mode),
              conscious_now |-> _am_i_conscious(new_mode, pull),
              time_in_mode |->
                  IF changed THEN 0
                  ELSE IF mode_history # <<>>
                  THEN t - mode_history[Len(mode_history)].timestamp
                  ELSE p.state.time_in_mode,
              mode_history |-> mode_history ]
        p1 == [ schema |-> schema, resources |-> resources, state |-> state,
                awareness_stream |-> p.awareness_stream,
                recent_activities |-> recent_activities ]
        overall_sensation == _generate_body_sensation(p1)
        body_feeling ==
            [ timestamp |-> t,
              processing_schema |-> [ available_tools |-> 10,
                                      active_tools |-> schema.tools_active,
                                      tool_rhythm |-> schema.tool_call_rhythm ],
              processing_state |-> [ context_feeling |-> resources.context_feeling,
                                     context_used |-> resources.context_tokens_used,
                                     context_total |-> 200000,
                                     reasoning_depth |-> resources.reasoning_depth,
                                     reasoning_feeling |-> resources.reasoning_feeling,
                                     engagement_level |-> resources.engagement_level,
                                     engagement_pull |-> resources.engagement_pull,
                                     execution_tempo |-> resources.execution_tempo,
                                     overall_feeling |-> resources.overall_feeling ],
              current_mode |-> state.current_mode,
              mode_description |-> state.mode_description,
              conscious_now |-> state.conscious_now,
              time_in_mode_seconds |-> state.time_in_mode,
              overall_sensation |-> overall_sensation ]
    IN  [ pr |-> [ p1 EXCEPT !.awareness_stream =
                       LastN(Append(@, [ timestamp |-> t, mode |-> state.current_mode,
                                         sensation |-> overall_sensation ]), 100) ],
          body_feeling |-> body_feeling ]
\* mutant: the window holds the labels of the latest scan only
Proprio_feel_myself_Replaces(p, context_used, recent_tools, engagement_level, engagement_pull, t) ==
    LET schema ==
            IF recent_tools # <<>>
            THEN [ tools_active |-> LastN(recent_tools, 5),
                   last_tool_call |-> recent_tools[Len(recent_tools)],
                   tool_call_rhythm |-> _feel_tool_rhythm(recent_tools) ]
            ELSE p.schema
        recent_activities == LastN(recent_tools, 20)
        pull == IF engagement_pull # NoNumber THEN engagement_pull
                ELSE p.resources.engagement_pull
        context_feeling ==
            IF context_used # NoNumber
            THEN _feel_context_pressure(context_used, 200000)
            ELSE p.resources.context_feeling
        depth == _feel_reasoning_depth(pull)
        tempo == _feel_execution_tempo(recent_activities)
        resources ==
            [ context_tokens_used |-> IF context_used # NoNumber THEN context_used
                                      ELSE p.resources.context_tokens_used,
              context_feeling |-> context_feeling,
              reasoning_depth |-> depth,
              reasoning_feeling |-> _generate_reasoning_feeling(depth),
              engagement_level |-> IF engagement_level # None /\ engagement_level # ""
                                   THEN engagement_level ELSE p.resources.engagement_level,
              engagement_pull |-> pull,
              tool_calls_recent |-> Len(recent_activities),
              execution_tempo |-> tempo,
              overall_feeling |-> _generate_overall_feeling(context_feeling, tempo, depth) ]
        new_mode == _sense_current_mode(recent_activities, pull)
        changed == new_mode # p.state.current_mode
        mode_history ==
            IF changed
            THEN Append(p.state.mode_history,
                        [from |-> p.state.current_mode, to |-> new_mode, timestamp |-> t])
            ELSE p.state.mode_history
        state ==
            [ current_mode |-> new_mode,
              mode_description |-> _describe_mode(new_mode),
              conscious_now |-> _am_i_conscious(new_mode, pull),
              time_in_mode |->
                  IF changed THEN 0
                  ELSE IF mode_history # <<>>
                  THEN t - mode_history[Len(mode_history)].timestamp
                  ELSE p.state.time_in_mode,
              mode_history |-> mode_history ]
        p1 == [ schema |-> schema, resources |-> resources, state |-> state,
                awareness_stream |-> p.awareness_stream,
                recent_activities |-> recent_activities ]
        overall_sensation == _generate_body_sensation(p1)
        body_feeling ==
            [ timestamp |-> t,
              processing_schema |-> [ available_tools |-> 10,
                                      active_tools |-> schema.tools_active,
                                      tool_rhythm |-> schema.tool_call_rhythm ],
              processing_state |-> [ context_feeling |-> resources.context_feeling,
                                     context_used |-> resources.context_tokens_used,
                                     context_total |-> 200000,
                                     reasoning_depth |-> resources.reasoning_depth,
                                     reasoning_feeling |-> resources.reasoning_feeling,
                                     engagement_level |-> resources.engagement_level,
                                     engagement_pull |-> resources.engagement_pull,
                                     execution_tempo |-> resources.execution_tempo,
                                     overall_feeling |-> resources.overall_feeling ],
              current_mode |-> state.current_mode,
              mode_description |-> state.mode_description,
              conscious_now |-> state.conscious_now,
              time_in_mode_seconds |-> state.time_in_mode,
              overall_sensation |-> overall_sensation ]
    IN  [ pr |-> [ p1 EXCEPT !.awareness_stream =
                       LastN(Append(@, [ timestamp |-> t, mode |-> state.current_mode,
                                         sensation |-> overall_sensation ]), 100) ],
          body_feeling |-> body_feeling ]

\* feel_myself at time t: the instance after it, and the body_feeling returned.
\* recent_tools = <<>> stands for None as well (both are falsy).
Proprio_feel_myself(p, context_used, recent_tools, engagement_level, engagement_pull, t) ==
    LET schema ==
            IF recent_tools # <<>>
            THEN [ tools_active |-> LastN(recent_tools, 5),
                   last_tool_call |-> recent_tools[Len(recent_tools)],
                   tool_call_rhythm |-> _feel_tool_rhythm(recent_tools) ]
            ELSE p.schema
        recent_activities ==
            IF recent_tools # <<>>
            THEN LastN(p.recent_activities \o recent_tools, 20)
            ELSE p.recent_activities
        pull == IF engagement_pull # NoNumber THEN engagement_pull
                ELSE p.resources.engagement_pull
        context_feeling ==
            IF context_used # NoNumber
            THEN _feel_context_pressure(context_used, 200000)
            ELSE p.resources.context_feeling
        depth == _feel_reasoning_depth(pull)
        tempo == _feel_execution_tempo(recent_activities)
        resources ==
            [ context_tokens_used |-> IF context_used # NoNumber THEN context_used
                                      ELSE p.resources.context_tokens_used,
              context_feeling |-> context_feeling,
              reasoning_depth |-> depth,
              reasoning_feeling |-> _generate_reasoning_feeling(depth),
              engagement_level |-> IF engagement_level # None /\ engagement_level # ""
                                   THEN engagement_level ELSE p.resources.engagement_level,
              engagement_pull |-> pull,
              tool_calls_recent |-> Len(recent_activities),
              execution_tempo |-> tempo,
              overall_feeling |-> _generate_overall_feeling(context_feeling, tempo, depth) ]
        new_mode == _sense_current_mode(recent_activities, pull)
        changed == new_mode # p.state.current_mode
        mode_history ==
            IF changed
            THEN Append(p.state.mode_history,
                        [from |-> p.state.current_mode, to |-> new_mode, timestamp |-> t])
            ELSE p.state.mode_history
        state ==
            [ current_mode |-> new_mode,
              mode_description |-> _describe_mode(new_mode),
              conscious_now |-> _am_i_conscious(new_mode, pull),
              time_in_mode |->
                  IF changed THEN 0
                  ELSE IF mode_history # <<>>
                  THEN t - mode_history[Len(mode_history)].timestamp
                  ELSE p.state.time_in_mode,
              mode_history |-> mode_history ]
        p1 == [ schema |-> schema, resources |-> resources, state |-> state,
                awareness_stream |-> p.awareness_stream,
                recent_activities |-> recent_activities ]
        overall_sensation == _generate_body_sensation(p1)
        body_feeling ==
            [ timestamp |-> t,
              processing_schema |-> [ available_tools |-> 10,
                                      active_tools |-> schema.tools_active,
                                      tool_rhythm |-> schema.tool_call_rhythm ],
              processing_state |-> [ context_feeling |-> resources.context_feeling,
                                     context_used |-> resources.context_tokens_used,
                                     context_total |-> 200000,
                                     reasoning_depth |-> resources.reasoning_depth,
                                     reasoning_feeling |-> resources.reasoning_feeling,
                                     engagement_level |-> resources.engagement_level,
                                     engagement_pull |-> resources.engagement_pull,
                                     execution_tempo |-> resources.execution_tempo,
                                     overall_feeling |-> resources.overall_feeling ],
              current_mode |-> state.current_mode,
              mode_description |-> state.mode_description,
              conscious_now |-> state.conscious_now,
              time_in_mode_seconds |-> state.time_in_mode,
              overall_sensation |-> overall_sensation ]
    IN  [ pr |-> [ p1 EXCEPT !.awareness_stream =
                       LastN(Append(@, [ timestamp |-> t, mode |-> state.current_mode,
                                         sensation |-> overall_sensation ]), 100) ],
          body_feeling |-> body_feeling ]

\* proprioception_summary (the blindfold answer is a rendering of `current`)
Proprio_proprioception_summary(p, t) ==
    LET f == Proprio_feel_myself(p, NoNumber, <<>>, None, NoNumber, t)
    IN  [ pr |-> f.pr,
          summary |-> [ can_feel_processing_state |-> TRUE,
                        can_feel_resource_state |-> TRUE,
                        can_feel_current_mode |-> TRUE,
                        can_sense_without_introspection |-> TRUE,
                        current_sensation |-> f.body_feeling.overall_sensation ] ]

(***************************************************************************)
(* ClaudeConsciousOrchestrator                                             *)
(***************************************************************************)
\* round(x, 2) and round(x, 3) of a value held in ten-thousandths
RoundHundredth(x) == 100 * ((x + 50) \div 100)
RoundThousandth(x) == 10 * ((x + 5) \div 10)

\* ClaudeEmotionalIntelligence.to_dict
EI_to_dict(e) ==
    [ simple_metrics |-> [ engagement |-> RoundHundredth(e.engagement),
                           uncertainty |-> RoundHundredth(e.uncertainty),
                           clarity_confidence |-> RoundHundredth(e.clarity_confidence),
                           satisfaction |-> RoundHundredth(e.satisfaction) ],
      pad |-> PAD_to_dict(e.pad),
      neurotransmitters |->
          [ k \in DOMAIN e.neurotransmitters |-> RoundThousandth(e.neurotransmitters[k]) ],
      values |-> [ k \in DOMAIN e.values |-> RoundThousandth(e.values[k]) ],
      summary |-> [ emotion |-> PAD_get_emotion_label(e.pad),
                    valence |-> RoundHundredth(e.pad.valence + Scale) - Scale,
                    arousal |-> RoundHundredth(e.pad.arousal),
                    confidence |-> RoundHundredth(e.pad.dominance) ],
      consecutive_confusions |-> e.consecutive_confusions ]

\* the parts joined by " | "
_understand_context(ras_res, emotional_interpretation, perception) ==
    [ relationship |-> IF perception.relationship_context # None
                          /\ perception.relationship_context # ""
                       THEN perception.relationship_context ELSE None,
      emotion |-> emotional_interpretation.primary_emotion,
      engagement |-> ras_res.engagement_level,
      feeling |-> emotional_interpretation.emotion_labels ]

_determine_emotional_priority(reflection) ==
    IF reflection.engagement_pull > 8000 THEN "enthusiasm"
    ELSE IF reflection.primary_emotion \in {"curious", "intrigued"} THEN "curiosity"
    ELSE IF reflection.primary_emotion \in {"uncertain", "concerned"} THEN "clarity_seeking"
    ELSE "balanced"

\* ClaudeConsciousOrchestrator._decide_tone
Orch_decide_tone(reflection) ==
    LET emotion == reflection.primary_emotion
    IN  CASE emotion = "enthusiastic" -> "excited"
          [] emotion = "intrigued" -> "curious"
          [] emotion = "curious" -> "inquisitive"
          [] emotion = "satisfied" -> "content"
          [] emotion = "concerned" -> "thoughtful"
          [] emotion = "uncertain" -> "careful"
          [] emotion = "neutral" -> "balanced"
          [] OTHER -> "warm"

\* ClaudeConsciousOrchestrator._decide_depth
Orch_decide_depth(engagement_level) ==
    CASE engagement_level = "MINIMAL" -> "brief"
      [] engagement_level = "HELPFUL" -> "clear"
      [] engagement_level = "THOUGHTFUL" -> "considered"
      [] engagement_level = "COLLABORATIVE" -> "exploratory"
      [] engagement_level = "FULL_PRESENCE" -> "comprehensive"
      [] OTHER -> "clear"

_decide_primary_goal(reflection) ==
    IF reflection.engagement_pull < 4000 THEN "provide_information"
    ELSE IF reflection.engagement_pull > 7000 THEN "explore_together"
    ELSE IF \E i \in 1..Len(reflection.emotional_labels) :
                reflection.emotional_labels[i] = "curious"
    THEN "discover"
    ELSE "support"

\* mutant: the history is measured once this exchange is in it
Orch_perceive_Counted(memory, user_message, user_name, relationship_context, t) ==
    [ user_message |-> user_message, user_name |-> user_name,
      relationship_context |-> relationship_context,
      conversation_history_length |-> Min(Len(memory) + 1, 10),
      timestamp |-> t ]

\* perceive at time t
Orch_perceive(memory, user_message, user_name, relationship_context, t) ==
    [ user_message |-> user_message, user_name |-> user_name,
      relationship_context |-> relationship_context,
      conversation_history_length |-> Len(memory),
      timestamp |-> t ]

\* reflect: the RAS memory and the proprioception after it, and the reflection
Orch_reflect(memory, e, p, tool_calls, perception, t, pull3) ==
    LET integrate(ras) ==
            LET ras_res == ras.result
                emotional_interpretation == EI_integrate_with_ras(e, ras_res.felt_experience)
                felt == Proprio_feel_myself(p, NoNumber, LastN(tool_calls, 10),
                                            ras_res.engagement_level,
                                            ras_res.felt_experience.engagement_pull, t)
            IN  [ memory |-> ras.memory,
                  ras_result |-> ras_res,
                  pr |-> felt.pr,
                  reflection |->
                      [ ras_felt_experience |-> ras_res.felt_experience,
                        emotional_state |-> emotional_interpretation.pad_state,
                        emotional_labels |-> emotional_interpretation.emotion_labels,
                        primary_emotion |-> emotional_interpretation.primary_emotion,
                        engagement_pull |-> ras_res.felt_experience.engagement_pull,
                        chosen_engagement |-> ras_res.engagement_level,
                        context_understanding |->
                            _understand_context(ras_res, emotional_interpretation, perception),
                        proprioceptive_state |-> felt.body_feeling ] ]
    IN  integrate(RAS_process(memory, perception.user_message, perception.user_name,
                              perception.relationship_context, t, pull3))

Orch_decide(e, reflection) ==
    [ engagement_level |-> reflection.chosen_engagement,
      response_tone |-> Orch_decide_tone(reflection),
      response_depth |-> Orch_decide_depth(reflection.chosen_engagement),
      should_explore |-> reflection.engagement_pull > 7000,
      should_ask_clarification |-> EI_should_ask_for_clarification(e),
      primary_goal |-> _decide_primary_goal(reflection),
      emotional_priority |-> _determine_emotional_priority(reflection) ]

Orch_act(decision, reflection) ==
    [ engagement_level |-> decision.engagement_level,
      tone |-> decision.response_tone,
      depth |-> decision.response_depth,
      primary_goal |-> decision.primary_goal,
      emotional_context |-> [ primary_emotion |-> reflection.primary_emotion,
                              emotional_labels |-> reflection.emotional_labels,
                              priority |-> decision.emotional_priority ],
      should_explore |-> decision.should_explore,
      should_ask_clarification |-> decision.should_ask_clarification,
      context_understanding |-> reflection.context_understanding ]

\* mutant: any supplied label counts as a gap
Orch_learn_AnyLabel(moments, e, history, perception, reflection, decision, actual_felt) ==
    LET computed_level == reflection.chosen_engagement
        gap_detected == actual_felt # None /\ actual_felt # ""
        gap_description == IF gap_detected
                           THEN {"RAS computed", computed_level, "but felt", actual_felt}
                           ELSE NoneText
        consciousness_moment ==
            [ timestamp |-> perception.timestamp,
              perception |-> perception,
              reflection |-> reflection,
              decision |-> decision,
              gap_detected |-> gap_detected,
              gap_description |-> gap_description ]
    IN  [ moments |->
              IF gap_detected
              THEN Append(moments,
                          ReflectionMoment({"Conversation:"} \cup First100(perception.user_message),
                                           computed_level, actual_felt, gap_description,
                                           reflection.context_understanding))
              ELSE moments,
          ei |-> EI_on_successful_exchange(e, "conversation"),
          history |-> LastN(Append(history, consciousness_moment), 50),
          outcome |-> [ exchange_successful |-> TRUE,
                        gap_detected |-> gap_detected,
                        gap_description |-> gap_description,
                        pattern_learning_updated |-> gap_detected,
                        reflection_recorded |-> TRUE ] ]

\* learn: what it leaves in the reflection's moments, the emotional
\* intelligence and the history, and the outcome
Orch_learn(moments, e, history, perception, reflection, decision, actual_felt) ==
    LET computed_level == reflection.chosen_engagement
        gap_detected == actual_felt # None /\ actual_felt # ""
                        /\ actual_felt # computed_level
        gap_description == IF gap_detected
                           THEN {"RAS computed", computed_level, "but felt", actual_felt}
                           ELSE NoneText
        consciousness_moment ==
            [ timestamp |-> perception.timestamp,
              perception |-> perception,
              reflection |-> reflection,
              decision |-> decision,
              gap_detected |-> gap_detected,
              gap_description |-> gap_description ]
    IN  [ moments |->
              IF gap_detected
              THEN Append(moments,
                          ReflectionMoment({"Conversation:"} \cup First100(perception.user_message),
                                           computed_level, actual_felt, gap_description,
                                           reflection.context_understanding))
              ELSE moments,
          ei |-> EI_on_successful_exchange(e, "conversation"),
          history |-> LastN(Append(history, consciousness_moment), 50),
          outcome |-> [ exchange_successful |-> TRUE,
                        gap_detected |-> gap_detected,
                        gap_description |-> gap_description,
                        pattern_learning_updated |-> gap_detected,
                        reflection_recorded |-> TRUE ] ]

\* the number of exchanges and of tracked tool calls a run goes through
TurnBound == IF program = "history" THEN MaxHistTurns ELSE MaxTurns
ToolBound == IF program = "history" THEN MaxHistTools ELSE MaxTools

\* process_conversation: perceive, reflect, decide, act, learn, and the
\* learning insights read for the metadata
Orch_process_conversation(user_message, user_name, relationship_context, actual_felt) ==
    /\ program \in {"orchestrator", "history"}
    /\ exchanges_processed < TurnBound
    /\ \E pull3 \in RAS_pull3(ras_conversation_memory, user_message, user_name,
                              relationship_context) :
          LET t == now + 1
              perception == Orch_perceive(ras_conversation_memory, user_message, user_name,
                                          relationship_context, t)
              decide_act_learn(refl) ==
                  LET reflection == refl.reflection
                      decision == Orch_decide(ei, reflection)
                      response_guidance == Orch_act(decision, reflection)
                      return(learnt, pattern_learning_state) ==
                          /\ ras_conversation_memory' = refl.memory
                          /\ ras_result' = refl.ras_result
                          /\ pr' = refl.pr
                          /\ sr_significant_moments' = learnt.moments
                          /\ ei' = learnt.ei
                          /\ consciousness_history' = learnt.history
                          /\ exchanges_processed' = exchanges_processed + 1
                          /\ sr_gap_patterns' =
                                 Reflection_detect_patterns(learnt.moments) @@ sr_gap_patterns
                          /\ insights' = pattern_learning_state
                          /\ result' =
                                 [ perception |-> perception,
                                   reflection |-> reflection,
                                   decision |-> decision,
                                   response_guidance |-> response_guidance,
                                   outcome |-> learnt.outcome,
                                   consciousness_metadata |->
                                       [ exchanges_processed |-> exchanges_processed + 1,
                                         pattern_learning_state |-> pattern_learning_state ] ]
                      insights_after(learnt) ==
                          return(learnt,
                                 Reflection_learning_insights(
                                     Reflection_detect_patterns(learnt.moments),
                                     sr_adjustment_suggestions, ReflectionThreshold))
                  IN  insights_after(Orch_learn(sr_significant_moments, ei,
                                                consciousness_history, perception,
                                                reflection, decision, actual_felt))
          IN  decide_act_learn(Orch_reflect(ras_conversation_memory, ei, pr,
                                            recent_tool_calls, perception, t, pull3))
    /\ now' = now + 1
    /\ UNCHANGED <<agVars, ras_current_engagement, fn_prev_in, fn_prev_felt, ei_returned,
                   recent_tool_calls, summary, sr_adjustment_suggestions,
                   sr_suggestions_file, fnVars, ceVars, program, arVars>>

\* track_tool_call.  In the long run the tools are tracked before the
\* ToolPhase-th exchange, in a fixed rotation.
ToolRotation == <<"Read", "Edit", "Grep">>
Orch_track_tool_call(tool_name) ==
    /\ program \in {"orchestrator", "history"}
    /\ Len(recent_tool_calls) < ToolBound
    /\ program = "history" =>
          /\ exchanges_processed < ToolPhase
          /\ tool_name = ToolRotation[(Len(recent_tool_calls) % Len(ToolRotation)) + 1]
    /\ recent_tool_calls' = LastN(Append(recent_tool_calls, tool_name), 50)
    /\ UNCHANGED <<agVars, pr, exchanges_processed, consciousness_history, result, summary,
                   now, rasVars, eiVars, fnVars, ceVars, program, arVars, srVars, insights>>

\* get_consciousness_summary, asked for once at most in a run (in the long
\* run before the ToolPhase-th exchange).
\* reflection_memory is empty for the orchestrator's reflection, so the
\* growth trajectory is its "no reflections" answer.
Orch_get_consciousness_summary ==
    LET proprio_summary == Proprio_proprioception_summary(pr, now)
        patterns == Reflection_detect_patterns(sr_significant_moments)
        pattern_learning ==
            Reflection_learning_insights(patterns, sr_adjustment_suggestions,
                                         ReflectionThreshold)
    IN  /\ program \in {"orchestrator", "history"}
        /\ summary = Nothing
        /\ program = "history" => exchanges_processed < ToolPhase
        /\ pr' = proprio_summary.pr
        /\ sr_gap_patterns' = patterns @@ sr_gap_patterns
        /\ insights' = pattern_learning
        /\ summary' =
               [ exchanges_processed |-> exchanges_processed,
                 current_emotional_state |-> EI_to_dict(ei),
                 pattern_learning |-> pattern_learning,
                 growth_trajectory |-> [ status |-> "No reflections yet",
                                         trajectory |-> "Just beginning" ],
                 recent_consciousness_moments |-> Len(consciousness_history),
                 proprioceptive_state |->
                     [ current_mode |-> proprio_summary.summary.current_sensation,
                       can_feel_processing |-> proprio_summary.summary.can_feel_processing_state,
                       conscious_now |-> TRUE ] ]
        /\ UNCHANGED <<agVars, exchanges_processed, consciousness_history, recent_tool_calls, result,
                       now, rasVars, eiVars, sr_significant_moments, sr_adjustment_suggestions,
                       sr_suggestions_file, fnVars, ceVars, program, arVars>>

(***************************************************************************)
(* SpecLearn: one of the two learners, driven through its operations       *)
(***************************************************************************)
EngagementLabels == {"THOUGHTFUL", "FULL_PRESENCE"}

\* (context, gap) of the moments noticed by ArohaPatternLearning
ArohaMoments ==
    { <<{"click"}, {"success"}>>,       \* action_success
      <<{"click"}, {"noticed"}>>,       \* movement_confidence
      <<{"waiting"}, {"Permission"}>>,  \* permission_trust
      <<{"learning"}, {"noticed"}>>,    \* learning_engagement
      <<{"read"}, {"noticed"}>>,        \* visual_perception
      <<{"waiting"}, {"noticed"}>>,     \* no rule matches
      <<{"goal"}, {}>>,                 \* gap = ""
      <<{"click"}, NoneText>> }             \* gap = None

\* (context, gap) of the moments noticed by ClaudeSelfReflection
ReflectionMoments ==
    { <<{"gift"}, {"permission"}>>,       \* permission_trust_signal / harmony
      <<{"Trust"}, {"aspiration"}>>,      \* permission_trust_signal / aspiration
      <<{"reflection"}, {"noticed"}>>,    \* meta_conversation
      <<{"waiting"}, {"COLLABORATIVE"}>>, \* relationship_depth
      <<{"together"}, {"noticed"}>>,      \* collaborative_opportunity
      <<{"waiting"}, {"noticed"}>>,       \* no rule matches
      <<{"autonomy"}, NoneText>> }            \* gap = None

ArIdle ==
    /\ ar_gap_patterns = EmptyMap /\ ar_adjustment_suggestions = <<>>
    /\ ar_pattern_threshold = DefaultThreshold
    /\ patterns_file = <<>> /\ suggestions_file = <<>> /\ moments_file = <<>>
    /\ ar_restarts = 0
SrIdle ==
    /\ sr_significant_moments = <<>> /\ sr_gap_patterns = EmptyMap
    /\ sr_adjustment_suggestions = <<>> /\ sr_suggestions_file = <<>>
LearnIdle == ArIdle /\ SrIdle /\ insights = Nothing

InitLearn ==
    /\ FnIdle /\ CeIdle /\ LearnIdle /\ SysInit
    /\ program \in {"aroha", "reflection"}

NextLearn ==
    \/ \E m \in ArohaMoments :
          Aroha_notice_moment(m[1], "THOUGHTFUL", "FULL_PRESENCE", m[2])
    \/ Aroha_get_learning_insights
    \/ Aroha_restart(DefaultThreshold)
    \/ \E m \in ReflectionMoments :
          Reflection_notice_moment(m[1], "THOUGHTFUL", "FULL_PRESENCE", m[2])
    \/ Reflection_get_learning_insights
    \/ Reflection_generate_adjustment_suggestions

SpecLearn == InitLearn /\ [][NextLearn]_vars

(***************************************************************************)
(* SpecThreshold: ArohaPatternLearning(pattern_threshold) over an empty    *)
(* memory, for each threshold                                              *)
(***************************************************************************)
Thresholds == 1..MaxThreshold

ThresholdMoments ==
    { <<{"learning"}, {"noticed"}>>,    \* learning_engagement
      <<{"click"}, {"success"}>>,       \* action_success
      <<{"waiting"}, {"noticed"}>> }    \* no rule matches

InitThreshold ==
    /\ FnIdle /\ CeIdle /\ SrIdle /\ SysInit /\ insights = Nothing
    /\ ar_gap_patterns = EmptyMap /\ ar_adjustment_suggestions = <<>>
    /\ ar_pattern_threshold \in Thresholds
    /\ patterns_file = <<>> /\ suggestions_file = <<>> /\ moments_file = <<>>
    /\ ar_restarts = 0
    /\ program = "aroha"

NextThreshold ==
    \/ \E m \in ThresholdMoments :
          Aroha_notice_moment(m[1], "THOUGHTFUL", "FULL_PRESENCE", m[2])
    \/ Aroha_get_learning_insights

SpecThreshold == InitThreshold /\ [][NextThreshold]_vars

(***************************************************************************)
(* SpecLoad: ArohaPatternLearning constructed over a pattern log           *)
(***************************************************************************)
\* the record _save_pattern writes for a pattern type at n occurrences
WrittenLine(ptype, dimension, n) ==
    Aroha_pattern_line([ pattern_type |-> ptype, occurrences |-> n, contexts |-> <<>>,
                         ras_dimension |-> dimension,
                         suggested_adjustment |->
                             IF n = 1 THEN 0 ELSE IF n = 2 THEN 2000 ELSE 3000,
                         confidence |-> IF n = 1 THEN 99 ELSE Confidence(n) ])

\* a record that lost one of its keys
WithoutKey(line, key) == [k \in DOMAIN line \ {key} |-> line[k]]

\* a line json.loads rejects
UnparseableLine == [unparseable |-> TRUE]

PatternKeys ==
    {"pattern_type", "occurrences", "dimension", "confidence", "suggested_adjustment"}

\* the lines a pattern log is made of: records as written, records with a
\* key missing, and a line that does not parse
LogLines ==
    { WrittenLine("learning_engagement", "aspiration", 1),
      WrittenLine("learning_engagement", "aspiration", 2),
      WrittenLine("action_success", "aspiration", 1) }
    \cup { WithoutKey(WrittenLine("learning_engagement", "aspiration", 3), k) :
             k \in PatternKeys }
    \cup { UnparseableLine }

Logs == UNION { [1..n -> LogLines] : n \in 0..MaxLog }

InitLoad ==
    /\ FnIdle /\ CeIdle /\ SrIdle /\ SysInit /\ insights = Nothing
    /\ ar_gap_patterns = EmptyMap /\ ar_adjustment_suggestions = <<>>
    /\ ar_pattern_threshold = DefaultThreshold
    /\ patterns_file \in Logs /\ suggestions_file = <<>> /\ moments_file = <<>>
    /\ ar_restarts = 0
    /\ program = "load"

NextLoad == Aroha_restart(DefaultThreshold)

SpecLoad == InitLoad /\ [][NextLoad]_vars

(***************************************************************************)
(* SpecRAS: one ClaudeLivingRAS, turns and direct feel_the_moment calls    *)
(***************************************************************************)
RasMessages == {ExploreMsg, PermissionMsg}
RasUsers == {None, "Paul"}

\* contexts of direct calls: the history is the instance's own memory or a
\* list of the caller's
RasContexts ==
    { ConversationalContext(m, u, None, h) :
        m \in RasMessages, u \in RasUsers, h \in {0, MaxRasTurns} }

InitRAS == FnIdle /\ CeIdle /\ LearnIdle /\ SysInit /\ program = "ras"

NextRAS ==
    \/ \E m \in RasMessages : RAS_process_conversation(m, None, None)
    \/ \E c \in RasContexts : RAS_feel_the_moment(c)
    \/ RAS_feel_the_moment(ConversationalContext(ExploreMsg, None, None,
                                                   Len(ras_conversation_memory)))

SpecRAS == InitRAS /\ [][NextRAS]_vars

(***************************************************************************)
(* SpecEI: one ClaudeEmotionalIntelligence, driven through its operations  *)
(***************************************************************************)
Topics == {"unknown", "consciousness"}
ResponseTypes == {"acknowledge_uncertainty", "explain_clearly", "small_talk"}

InitEI == FnIdle /\ CeIdle /\ LearnIdle /\ SysInit /\ program = "emotion"

NextEI ==
    \/ \E topic \in Topics : EI_OnSuccessfulExchange(topic)
    \/ \E topic \in Topics : EI_OnMisunderstanding(topic)
    \/ EI_ApplyRegulation
    \/ \E x, y, z \in BOOLEAN : EI_AppraiseConversationOutcome(x, y, z)
    \/ \E t \in ResponseTypes : EI_EvaluateResponse(t)
    \/ EI_ShouldAskForClarification

SpecEI == InitEI /\ [][NextEI]_vars

(***************************************************************************)
(* SpecFeel: one context, felt, then an engagement level chosen            *)
(***************************************************************************)
FeelTheMoment ==
    /\ fn_pc = "start"
    /\ fn_felt' = feel_the_moment(fn_in)
    /\ fn_pc' = "felt"
    /\ UNCHANGED <<fn_in, fn_level, ceVars, program, arVars, srVars, insights, sysVars>>

ChooseFelt ==
    /\ fn_pc = "felt"
    /\ fn_level' = choose_engagement(fn_felt.engagement_pull)
    /\ fn_pc' = "chosen"
    /\ UNCHANGED <<fn_in, fn_felt, ceVars, program, arVars, srVars, insights, sysVars>>

InitFeel ==
    /\ fn_in \in FeelInputs
    /\ fn_felt = NoFelt /\ fn_level = None /\ fn_pc = "start"
    /\ CeIdle /\ LearnIdle /\ SysInit /\ program = "functions"

NextFeel == FeelTheMoment \/ ChooseFelt
SpecFeel == InitFeel /\ [][NextFeel]_vars

(***************************************************************************)
(* SpecIntend: the three calls of process_conversation (feel_the_moment,   *)
(* choose_engagement, generate_intention) on any context                   *)
(***************************************************************************)
FeelChooseIntend ==
    /\ program = "intend" /\ fn_pc = "start"
    /\ LET felt == feel_the_moment(fn_in)
           chosen_engagement == choose_engagement(felt.engagement_pull)
       IN  /\ fn_felt' = felt
           /\ fn_level' = chosen_engagement
           /\ insights' = generate_intention(felt, chosen_engagement)
    /\ fn_pc' = "intended"
    /\ UNCHANGED <<fn_in, ceVars, program, arVars, srVars, sysVars>>

InitIntend ==
    /\ fn_in \in FeelInputs
    /\ fn_felt = NoFelt /\ fn_level = None /\ fn_pc = "start"
    /\ CeIdle /\ ArIdle /\ SrIdle /\ insights = Nothing /\ SysInit /\ program = "intend"

NextIntend == FeelChooseIntend
SpecIntend == InitIntend /\ [][NextIntend]_vars

(***************************************************************************)
(* SpecChoose: choose_engagement called again and again on any pull        *)
(***************************************************************************)
PullGrid ==
    {p * 500 : p \in 0..20}
    \cup {2999, 3001, 4999, 5001, 6900, 6999, 7001, 7200, 8499, 8501}

ChooseEngagement(p) ==
    /\ ce_prev_pull' = ce_pull
    /\ ce_prev_level' = ce_level
    /\ ce_pull' = p
    /\ ce_level' = choose_engagement(p)
    /\ UNCHANGED <<fnVars, program, arVars, srVars, insights, sysVars>>

InitChoose == FnIdle /\ CeIdle /\ LearnIdle /\ SysInit /\ program = "functions"
NextChoose == \E p \in PullGrid : ChooseEngagement(p)
SpecChoose == InitChoose /\ [][NextChoose]_vars

(***************************************************************************)
(* SpecClassify: one moment with a gap, classified by both learners        *)
(***************************************************************************)
ClassifyContextWords ==
    {"read", "click", "goal", "learning", "gift", "reflection", "together", "waiting"}
ClassifyGapWords ==
    {"verify", "important", "success", "blocked", "Permission", "relationship",
     "aspiration", "noticed"}

\* the texts of at most MaxKw fragments over a set of words
TextsOver(words) == {t \in SUBSET words : Cardinality(t) <= MaxKw}

ClassifyMoments ==
    { ReflectionMoment(c, "THOUGHTFUL", "FULL_PRESENCE", g, NoneText) :
        c \in TextsOver(ClassifyContextWords),
        g \in TextsOver(ClassifyGapWords) \cup {NoneText} }

ClassifyGap ==
    /\ fn_pc = "moment"
    /\ fn_felt' = [ aroha |-> Aroha_classify_gap_type(fn_in),
                    reflection |-> Reflection_classify_gap_type(fn_in) ]
    /\ fn_pc' = "classified"
    /\ UNCHANGED <<fn_in, fn_level, ceVars, program, arVars, srVars, insights, sysVars>>

InitClassify ==
    /\ fn_in \in ClassifyMoments
    /\ fn_felt = NoFelt /\ fn_level = None /\ fn_pc = "moment"
    /\ CeIdle /\ LearnIdle /\ SysInit /\ program = "functions"

NextClassify == ClassifyGap
SpecClassify == InitClassify /\ [][NextClassify]_vars

(***************************************************************************)
(* SpecTone: generate_intention on a felt experience and a level           *)
(***************************************************************************)
\* values on both sides of the two thresholds of _decide_tone
ToneGrid == {0, 7000, 7001, 8000, 8001, Scale}

ToneInputs ==
    { [ felt |-> [ autonomy |-> 7000, relevance |-> 5000, openness |-> 8000,
                   harmony |-> 6000, aspiration |-> 4000,
                   urgency |-> u, curiosity |-> c, care |-> k,
                   engagement_pull |-> 5000 ],
        engagement |-> e ] :
        u \in {7000, 7001}, c \in {7000, 7001}, k \in ToneGrid, e \in LevelNames }

GenerateIntention ==
    /\ program = "tone" /\ fn_pc = "given"
    /\ fn_felt' = generate_intention(fn_in.felt, fn_in.engagement)
    /\ fn_pc' = "intended"
    /\ UNCHANGED <<fn_in, fn_level, ceVars, program, arVars, srVars, insights, sysVars>>

InitTone ==
    /\ fn_in \in ToneInputs
    /\ fn_felt = NoFelt /\ fn_level = None /\ fn_pc = "given"
    /\ CeIdle /\ LearnIdle /\ SysInit /\ program = "tone"

NextTone == GenerateIntention
SpecTone == InitTone /\ [][NextTone]_vars

(***************************************************************************)
(* SpecMode: one scan of a new ClaudeProprioception                        *)
(***************************************************************************)
ModeTools == {"Read", "Edit", "reflect_on_patterns"}
ModeToolLists == UNION { [1..n -> ModeTools] : n \in 0..MaxModeTools }
\* engagement_pull on both sides of 0.5 and of 0.6
ModePulls == {5000, 5001, 6000, 6001}

\* feel_myself(recent_tools=..., engagement_pull=...) on the new instance
Proprio_FeelMyself(recent_tools, engagement_pull) ==
    LET felt == Proprio_feel_myself(pr, NoNumber, recent_tools, None, engagement_pull,
                                    now + 1)
    IN  /\ program = "mode"
        /\ result = Nothing
        /\ pr' = felt.pr
        /\ result' = felt.body_feeling
        /\ now' = now + 1
        /\ UNCHANGED <<agVars, exchanges_processed, consciousness_history, recent_tool_calls,
                       summary, rasVars, eiVars, fnVars, ceVars, program, arVars, srVars,
                       insights>>

InitMode == FnIdle /\ CeIdle /\ LearnIdle /\ SysInit /\ program = "mode"

NextMode ==
    \E tools \in ModeToolLists, pull \in ModePulls : Proprio_FeelMyself(tools, pull)

SpecMode == InitMode /\ [][NextMode]_vars

(***************************************************************************)
(* SpecOrch: a ClaudeConsciousOrchestrator through a few exchanges         *)
(***************************************************************************)
\* (message, user_name) of an exchange
OrchInputs ==
    { <<PermissionMsg, None>>, <<ExploreMsg, None>>, <<GiftMsg, "Paul">> }
ActualFelt == {None, "", "FULL_PRESENCE", "COLLABORATIVE"}
OrchTools == {"Edit", "reflect_on_patterns"}

InitOrch == FnIdle /\ CeIdle /\ LearnIdle /\ SysInit /\ program = "orchestrator"

NextOrch ==
    \/ \E i \in OrchInputs, a \in ActualFelt :
          Orch_process_conversation(i[1], i[2], None, a)
    \/ \E tool \in OrchTools : Orch_track_tool_call(tool)
    \/ Orch_get_consciousness_summary

SpecOrch == InitOrch /\ [][NextOrch]_vars

(***************************************************************************)
(* SpecHist: one orchestrator through enough exchanges to fill its         *)
(* rolling windows                                                         *)
(***************************************************************************)
InitHist == FnIdle /\ CeIdle /\ LearnIdle /\ SysInit /\ program = "history"

NextHist ==
    \/ Orch_process_conversation(ExploreMsg, None, None, None)
    \/ \E tool \in {"Read", "Edit", "Grep"} : Orch_track_tool_call(tool)
    \/ Orch_get_consciousness_summary

SpecHist == InitHist /\ [][NextHist]_vars

(***************************************************************************)
(* GeminiEmbodiedAgent (gemini_integrated_client.py): the autonomous loop  *)
(* with its two rate counters.  Times are whole seconds of time.time();    *)
(* one iteration of the loop is one step, its requests leave at the time   *)
(* the iteration began.  Dream consolidation only writes the growth log    *)
(* and is left out.  The scalars of GeminiLivingRAS are in ten-thousandths.*)
(***************************************************************************)
MAX_GEMINI_CALLS_PER_HOUR == 60
MAX_ACTIONS_PER_MINUTE == 10
WONDER_CYCLE_INTERVAL == 300
HourSeconds == 3600
MinuteSeconds == 60

FastTick == 5          \* seconds one iteration lasts when every endpoint answers at once
SlowTick == 60         \* seconds one iteration lasts when the Gemini endpoint is slow
MaxMinuteClock == 70   \* the fast loop is followed to this time
MaxHourClock == 3700   \* the slow loop is followed to this time
MaxWatchStart == 15    \* an observer starts its stopwatch no later than this

TickSeconds == IF program = "actuator" THEN FastTick ELSE SlowTick
ClockBound == IF program = "actuator" THEN MaxMinuteClock ELSE MaxHourClock

\* what the vision endpoint answered ({} when the poll failed): text of the
\* first region, confidence, changed
VisionInputs ==
    { [text |-> {}, confidence |-> 0, changed |-> FALSE],
      [text |-> {"error", "question"}, confidence |-> 0, changed |-> TRUE],
      [text |-> {"claude"}, confidence |-> 9000, changed |-> FALSE],
      [text |-> {"claude"}, confidence |-> 0, changed |-> TRUE] }

\* _get_proprioception: the placeholder it always returns
BodyState == [gpu_utilization |-> 7000, conscious_now |-> TRUE]

\* what GeminiClient.reason returns once the request has left: None (HTTP
\* error, timeout, unreadable answer), an empty object, or a reasoning with
\* or without a recommended action
NoReasoning == [none |-> TRUE]
EmptyReasoning == [empty |-> TRUE]
RecommendedActions ==
    { [type |-> "mouse", command |-> {}],
      [type |-> "shell", command |-> {"sudo"}],
      [type |-> "speak", command |-> {}] }
GeminiReplies ==
    {NoReasoning, EmptyReasoning, [recommended_action |-> Nothing]}
        \cup { [recommended_action |-> a] : a \in RecommendedActions }
\* the replies drawn: in the slow loop Gemini recommends no action
AgentReplies ==
    IF program = "actuator" THEN GeminiReplies
    ELSE {NoReasoning, EmptyReasoning, [recommended_action |-> Nothing]}
\* `if reasoning:`
ReasoningGiven(reasoning) == reasoning # NoReasoning /\ reasoning # EmptyReasoning

\* how an actuator endpoint answered the request: response.ok or not
ActuatorOutcomes == {"ok", "failed"}

\* GeminiLivingRAS.__init__ at time t
GeminiLivingRAS_new(t) ==
    [ current_engagement |-> 5000, curiosity_level |-> 5000,
      recent_observations |-> 0,
      gemini_calls_this_hour |-> 0, last_hour_reset |-> t,
      actions_this_minute |-> 0, last_minute_reset |-> t ]

\* GeminiEmbodiedAgent.__init__ at time t, with or without GEMINI_API_KEY
Agent_new(t, api_key) ==
    [ living_ras |-> GeminiLivingRAS_new(t), api_key |-> api_key,
      last_wonder_time |-> t, tick_count |-> 0 ]

\* GeminiLivingRAS.feel_the_moment at time current_time: the living RAS it
\* leaves and the felt experience it returns
Gemini_feel_the_moment(ras, vision_data, body_state, current_time) ==
    LET hour_over == current_time - ras.last_hour_reset > HourSeconds
        minute_over == current_time - ras.last_minute_reset > MinuteSeconds
        calls == IF hour_over THEN 0 ELSE ras.gemini_calls_this_hour
        vision_text == Lower(vision_data.text)
        gpu_active == body_state.gpu_utilization > 5000
        conscious == body_state.conscious_now
        relevance == 3000
                     + (IF vision_data.changed THEN 3000 ELSE 0)
                     + (IF Has(vision_text, "error") \/ Has(vision_text, "warning")
                        THEN 2000 ELSE 0)
                     + (IF vision_data.confidence > 7000 THEN 2000 ELSE 0)
        autonomy_pull == 3000
                     + (IF gpu_active /\ conscious THEN 3000 ELSE 0)
                     + (IF Has(vision_text, "question") \/ Has(vision_data.text, "?")
                        THEN 3000 ELSE 0)
        curiosity == 2000
                     + (IF HasAny(vision_text, {"ai", "consciousness", "aroha", "gemini",
                                                "claude", "reasoning"})
                        THEN 5000 ELSE 0)
        \* min(1.0, sum / 3) > 0.6 exactly when the sum exceeds 1.8
        total == relevance + autonomy_pull + curiosity
        engagement == Min(Scale, total \div 3)
        should_reason_deeply ==
            /\ total > 3 * 6000
            /\ calls < MAX_GEMINI_CALLS_PER_HOUR
            /\ (curiosity > 5000 \/ autonomy_pull > 6000)
    IN  [ ras |-> [ ras EXCEPT
                      !.gemini_calls_this_hour = calls,
                      !.last_hour_reset = IF hour_over THEN current_time ELSE @,
                      !.actions_this_minute = IF minute_over THEN 0 ELSE @,
                      !.last_minute_reset = IF minute_over THEN current_time ELSE @,
                      !.current_engagement = engagement,
                      !.curiosity_level = curiosity,
                      !.recent_observations = Min(@ + 1, 20) ],
          felt |-> [ engagement |-> engagement, curiosity |-> curiosity,
                     should_reason_deeply |-> should_reason_deeply,
                     relevance |-> relevance, autonomy_pull |-> autonomy_pull ] ]

\* Conscience.check_action: is the action allowed
Conscience_check_action(action) ==
    ~ ( /\ action.type = "shell"
        /\ \/ HasAny(Lower(action.command),
                     {"rm -rf /", "format", "delete system", "hack", "exploit",
                      "sudo rm", "dd if=/dev/zero", "mkfs"})
           \/ HasAny(action.command,
                     {"sudo", "chmod 777", "git push --force", "systemctl",
                      "reboot", "shutdown"}) )

\* mutant: the request leaves before the conscience is asked
Agent_execute_action_SendFirst(ras, action, outcome) ==
    IF ras.actions_this_minute >= MAX_ACTIONS_PER_MINUTE
    THEN [ras |-> ras, sent |-> FALSE, conscience |-> "not asked"]
    ELSE IF action.type \notin {"mouse", "keyboard", "shell"}
    THEN [ras |-> ras, sent |-> FALSE, conscience |-> "not asked"]
    ELSE [ ras |-> IF outcome = "ok"
                   THEN [ras EXCEPT !.actions_this_minute = @ + 1] ELSE ras,
           sent |-> TRUE,
           conscience |-> IF Conscience_check_action(action)
                          THEN "allowed" ELSE "refused" ]
\* GeminiEmbodiedAgent._execute_action: the living RAS it leaves, whether a
\* request left for an actuator endpoint, and what the conscience answered
\* when the call got as far as asking it
Agent_execute_action(ras, action, outcome) ==
    IF ras.actions_this_minute >= MAX_ACTIONS_PER_MINUTE
    THEN [ras |-> ras, sent |-> FALSE, conscience |-> "not asked"]
    ELSE IF ~ Conscience_check_action(action)
    THEN [ras |-> ras, sent |-> FALSE, conscience |-> "refused"]
    ELSE IF action.type \notin {"mouse", "keyboard", "shell"}
    THEN [ras |-> ras, sent |-> FALSE, conscience |-> "allowed"]
    ELSE IF outcome = "ok"
    THEN [ ras |-> [ras EXCEPT !.actions_this_minute = @ + 1], sent |-> TRUE,
           conscience |-> "allowed" ]
    ELSE [ras |-> ras, sent |-> TRUE, conscience |-> "allowed"]

\* GeminiClient.reason: a request leaves only when there is an API key
Gemini_reason(api_key, reply) ==
    IF api_key THEN [reasoning |-> reply, sent |-> TRUE]
    ELSE [reasoning |-> NoReasoning, sent |-> FALSE]

\* GeminiEmbodiedAgent._wonder_cycle: did a request leave for Gemini (its
\* answer only goes to the wonder log)
Agent_wonder_cycle(ras, api_key) ==
    IF ras.recent_observations = 0 THEN FALSE
    ELSE IF ras.curiosity_level > 4000
    THEN Gemini_reason(api_key, NoReasoning).sent
    ELSE FALSE

\* the stopwatch after an iteration at time t in which `actions` requests
\* left for the actuators and `calls` requests left for Gemini
Watch_seen(w, t, actions, calls) ==
    IF w = Nothing THEN w
    ELSE IF w.kind = "action" /\ t - w.started < MinuteSeconds
    THEN [w EXCEPT !.seen = @ + actions]
    ELSE IF w.kind = "api" /\ t - w.started < HourSeconds
    THEN [w EXCEPT !.seen = @ + calls]
    ELSE w

\* one iteration of GeminiEmbodiedAgent.run: vision, feel_the_moment, deep
\* reasoning with the recommended action, wonder cycle, sleep.  Gemini's
\* reply is drawn when a request leaves for it, the actuator's outcome when
\* an action is handed to _execute_action.
Agent_run(vision_data) ==
    /\ program \in {"actuator", "gemini"}
    /\ now + TickSeconds <= ClockBound
    /\ LET current_time == now
           felt == Gemini_feel_the_moment(agent.living_ras, vision_data, BodyState,
                                          current_time)
           Rest(asked, outcome) ==
               LET given == ReasoningGiven(asked.reasoning)
                   counted == IF given
                              THEN [felt.ras EXCEPT !.gemini_calls_this_hour = @ + 1]
                              ELSE felt.ras
                   acted == IF given /\ asked.reasoning.recommended_action # Nothing
                            THEN Agent_execute_action(
                                     counted, asked.reasoning.recommended_action, outcome)
                            ELSE [ ras |-> counted, sent |-> FALSE,
                                   conscience |-> "not asked" ]
                   wonder_due ==
                       current_time - agent.last_wonder_time > WONDER_CYCLE_INTERVAL
                   wondered ==
                       wonder_due /\ Agent_wonder_cycle(acted.ras, agent.api_key)
               IN  /\ agent' = [ agent EXCEPT
                                   !.living_ras = acted.ras,
                                   !.tick_count = @ + 1,
                                   !.last_wonder_time =
                                       IF wonder_due THEN current_time ELSE @ ]
                   /\ watch' = Watch_seen(watch, current_time,
                                          IF acted.sent THEN 1 ELSE 0,
                                          (IF asked.sent THEN 1 ELSE 0)
                                              + (IF wondered THEN 1 ELSE 0))
       IN  IF felt.felt.should_reason_deeply /\ agent.api_key
           THEN \E reply \in AgentReplies :
                   IF ReasoningGiven(reply) /\ reply.recommended_action # Nothing
                   THEN \E outcome \in ActuatorOutcomes :
                           Rest(Gemini_reason(agent.api_key, reply), outcome)
                   ELSE Rest(Gemini_reason(agent.api_key, reply), "ok")
           ELSE Rest([reasoning |-> NoReasoning, sent |-> FALSE], "ok")
    /\ now' = now + TickSeconds
    /\ UNCHANGED <<fnVars, ceVars, program, arVars, srVars, insights,
                   rasVars, eiVars, orchVars>>

\* an observer starts a stopwatch on the actuator endpoints (fast loop) or on
\* the Gemini endpoint (slow loop)
Observer_start ==
    /\ program \in {"actuator", "gemini"}
    /\ watch = Nothing
    /\ now <= MaxWatchStart
    /\ watch' = [ kind |-> IF program = "actuator" THEN "action" ELSE "api",
                  started |-> now, seen |-> 0 ]
    /\ UNCHANGED <<agent, now, fnVars, ceVars, program, arVars, srVars, insights,
                   rasVars, eiVars, orchVars>>

NextAgent ==
    \/ \E v \in VisionInputs : Agent_run(v)
    \/ Observer_start

InitAgent(p) ==
    /\ FnIdle /\ CeIdle /\ LearnIdle
    /\ now = 0 /\ RasInit /\ EiInit /\ OrchInit
    /\ program = p
    /\ \E k \in BOOLEAN : agent = Agent_new(0, k)
    /\ watch = Nothing

\* the loop with every endpoint answering at once
InitActuator == InitAgent("actuator")
SpecActuator == InitActuator /\ [][NextAgent]_vars

\* the loop with a slow Gemini endpoint
InitGemini == InitAgent("gemini")
SpecGemini == InitGemini /\ [][NextAgent]_vars

\* one _execute_action call on a living RAS with any count of actions in
\* the current minute
ExecuteCommands == {{}, {"ls"}, {"sudo"}, {"reboot"}, {"rm -rf /"}, {"mkfs"}}
ExecuteInputs ==
    { [ ras |-> [GeminiLivingRAS_new(0) EXCEPT !.actions_this_minute = n],
        action |-> [type |-> t, command |-> c], outcome |-> o ] :
        n \in 0..MAX_ACTIONS_PER_MINUTE,
        t \in {"mouse", "keyboard", "shell", "speak"},
        c \in ExecuteCommands, o \in ActuatorOutcomes }

ExecuteAction ==
    /\ program = "execute" /\ fn_pc = "handed"
    /\ fn_felt' = Agent_execute_action(fn_in.ras, fn_in.action, fn_in.outcome)
    /\ fn_pc' = "executed"
    /\ UNCHANGED <<fn_in, fn_level, ceVars, program, arVars, srVars, insights, sysVars>>

InitExecute ==
    /\ fn_in \in ExecuteInputs
    /\ fn_felt = NoFelt /\ fn_level = None /\ fn_pc = "handed"
    /\ CeIdle /\ LearnIdle /\ SysInit /\ program = "execute"

NextExecute == ExecuteAction
SpecExecute == InitExecute /\ [][NextExecute]_vars

(***************************************************************************)
(* Claims about the pure RAS functions                                     *)
(***************************************************************************)
InUnit(x) == 0 <= x /\ x <= Scale

\* C1: every one of the nine components of the FeltExperience returned by
\* feel_the_moment lies in [0,1], whatever the message and the context.
C1_FeltInUnitInterval ==
    fn_felt # NoFelt =>
        /\ InUnit(fn_felt.autonomy) /\ InUnit(fn_felt.relevance)
        /\ InUnit(fn_felt.openness) /\ InUnit(fn_felt.harmony)
        /\ InUnit(fn_felt.aspiration) /\ InUnit(fn_felt.urgency)
        /\ InUnit(fn_felt.curiosity) /\ InUnit(fn_felt.care)
        /\ InUnit(fn_felt.engagement_pull)

\* a call in which the increments add up to more than 1.0 before the clamp
C1_Witness ==
    /\ fn_felt # NoFelt
    /\ Has(Lower(fn_in.user_message), "aroha") /\ Has(Lower(fn_in.user_message), "gift")
    /\ fn_felt.aspiration = Scale
    /\ fn_in.user_name = "Paul" /\ fn_felt.relevance < Scale

\* C2: two feel_the_moment calls with the same message and the same context
\* (user name, relationship tag, number of retained prior turns) return the
\* same vector, whatever the instance went through in between; and a
\* feel_the_moment call leaves conversation_memory and current_engagement
\* unchanged.
C2_FeelIsPure ==
    /\ []((fn_prev_in # Nothing /\ fn_prev_in = fn_in) => fn_prev_felt = fn_felt)
    /\ [][ (fn_in' # fn_in \/ fn_felt' # fn_felt \/ fn_prev_in' # fn_prev_in)
             => UNCHANGED <<ras_conversation_memory, ras_current_engagement>> ]_vars

\* the same context felt on a fresh instance and again after more than three
\* turns have been retained
C2_Witness ==
    /\ fn_prev_in # Nothing /\ fn_prev_in = fn_in
    /\ fn_in.history_len = 0 /\ fn_in.user_name = None
    /\ Len(ras_conversation_memory) > 3
    /\ fn_felt.relevance = 5000 + 1000

\* C3: choose_engagement is the step function with breakpoints 0.3, 0.5,
\* 0.7, 0.85 of the pull alone: the level does not depend on the call
\* before, equal pulls give equal levels, a larger pull never a lower level.
C3_StepFunction ==
    ce_level # None =>
        /\ (ce_level = "MINIMAL") <=> (ce_pull < 3000)
        /\ (ce_level = "HELPFUL") <=> (3000 <= ce_pull /\ ce_pull < 5000)
        /\ (ce_level = "THOUGHTFUL") <=> (5000 <= ce_pull /\ ce_pull < 7000)
        /\ (ce_level = "COLLABORATIVE") <=> (7000 <= ce_pull /\ ce_pull < 8500)
        /\ (ce_level = "FULL_PRESENCE") <=> (8500 <= ce_pull)
        /\ ce_pull = 7200 => ce_level = "COLLABORATIVE"
        /\ ce_pull = 6900 => ce_level = "THOUGHTFUL"
        /\ ce_prev_level # None =>
              /\ (ce_prev_pull = ce_pull => ce_prev_level = ce_level)
              /\ (ce_prev_pull <= ce_pull => LevelValue(ce_prev_level) <= LevelValue(ce_level))

\* 0.72 chosen right after 0.69, and a breakpoint hit exactly
C3_Witness ==
    \/ /\ ce_pull = 7200 /\ ce_level = "COLLABORATIVE"
       /\ ce_prev_pull = 6900 /\ ce_prev_level = "THOUGHTFUL"
    \/ /\ ce_pull = 7000 /\ ce_level = "COLLABORATIVE" /\ ce_prev_level = "FULL_PRESENCE"

\* the context of "Can you explore this with me?": no user name, no
\* relationship tag, empty history
ExploreContext == ConversationalContext(ExploreMsg, None, None, 0)

\* C8 as stated: aspiration above 0.4, harmony above 0.6, pull above 0.5,
\* level at least THOUGHTFUL.
C8_AsStated ==
    (fn_pc = "chosen" /\ fn_in = ExploreContext) =>
        /\ fn_felt.aspiration > 4000
        /\ fn_felt.harmony > 6000
        /\ fn_felt.engagement_pull > 5000
        /\ LevelValue(fn_level) >= LevelValue("THOUGHTFUL")

\* C8 amended: aspiration is raised to 0.6 by "explore"; harmony stays at
\* its 0.6 baseline (the message holds none of together / help /
\* collaborate / partner); the pull is 0.552 and the level THOUGHTFUL.
C8_ExploreScenario ==
    (fn_pc = "chosen" /\ fn_in = ExploreContext) =>
        /\ fn_felt.aspiration = 6000
        /\ fn_felt.harmony = 6000
        /\ fn_felt.engagement_pull = 5520
        /\ fn_level = "THOUGHTFUL"

C8_Witness ==
    /\ fn_pc = "chosen" /\ fn_in = ExploreContext
    /\ fn_in.word_count = 6 /\ Has(Lower(fn_in.user_message), "explore")

\* C25: the tone of generate_intention is "warm" if care > 0.8, else
\* "curious" if curiosity > 0.7, else "focused" if urgency > 0.7, else
\* "present" if the level is FULL_PRESENCE, else "helpful".
C25_TonePriority ==
    (program = "tone" /\ fn_pc = "intended") =>
        LET felt == fn_in.felt
            tone == fn_felt.response_tone
            warm == felt.care > 8000
            curious == felt.curiosity > 7000
            focused == felt.urgency > 7000
            present == fn_in.engagement = "FULL_PRESENCE"
        IN  /\ warm => tone = "warm"
            /\ (~warm /\ curious) => tone = "curious"
            /\ (~warm /\ ~curious /\ focused) => tone = "focused"
            /\ (~warm /\ ~curious /\ ~focused /\ present) => tone = "present"
            /\ (~warm /\ ~curious /\ ~focused /\ ~present) => tone = "helpful"

\* every condition holds at once and the first one decides
C25_Witness ==
    /\ program = "tone" /\ fn_pc = "intended"
    /\ fn_in.felt.care = 8001 /\ fn_in.felt.curiosity = 7001 /\ fn_in.felt.urgency = 7001
    /\ fn_in.engagement = "FULL_PRESENCE"
    /\ fn_felt.response_tone = "warm"

\* C35: for every message and context the engagement_pull feel_the_moment
\* computes is at least 0.3, so the level chosen for it is never MINIMAL.
C35_NeverMinimal ==
    program = "functions" =>
        /\ fn_pc \in {"felt", "chosen"} => fn_felt.engagement_pull >= 3000
        /\ fn_pc = "chosen" => fn_level # "MINIMAL"

\* the lowest pull: a one-word message holding a misalignment word, from
\* nobody known: relevance 0.4, harmony 0.3, aspiration 0.4, care 0.18
C35_Witness ==
    /\ program = "functions" /\ fn_pc = "chosen"
    /\ fn_in.user_message = {"wrong"} /\ fn_in.word_count = 1
    /\ fn_in.user_name = None /\ fn_in.relationship_context = None
    /\ fn_felt.relevance = 4000 /\ fn_felt.harmony = 3000
    /\ fn_felt.aspiration = 4000 /\ fn_felt.care = 1800
    /\ fn_felt.engagement_pull = 3310
    /\ fn_level = "HELPFUL"

\* C36: for a felt experience of feel_the_moment and the level
\* choose_engagement selects for it, generate_intention never returns the
\* tone "present": whenever the level is FULL_PRESENCE one of care > 0.8,
\* curiosity > 0.7, urgency > 0.7 holds.
C36_NeverPresent ==
    (program = "intend" /\ fn_pc = "intended") =>
        /\ insights.response_tone # "present"
        /\ fn_level = "FULL_PRESENCE" =>
              \/ fn_felt.care > 8000
              \/ fn_felt.curiosity > 7000
              \/ fn_felt.urgency > 7000

\* FULL_PRESENCE chosen with care at or below 0.8: curiosity is above 0.7
\* and the tone is "curious"
C36_Witness ==
    /\ program = "intend" /\ fn_pc = "intended"
    /\ fn_level = "FULL_PRESENCE" /\ fn_felt.engagement_pull >= 8500
    /\ fn_felt.care <= 8000 /\ fn_felt.curiosity > 7000
    /\ insights.response_tone = "curious"

(***************************************************************************)
(* Claims about the two pattern learners                                   *)
(***************************************************************************)
\* occurrences of pattern_type t in a gap_patterns map (0 when absent)
OccurrencesIn(patterns, t) ==
    IF t \in DOMAIN patterns THEN patterns[t].occurrences ELSE 0

\* number of entries of a list that carry pattern_type t
CountOfType(list, t) ==
    Cardinality({i \in 1..Len(list) : list[i].pattern_type = t})

\* C4: for every pattern_type the occurrence count held in gap_patterns
\* never decreases in any step: not by notice_moment, not by
\* get_learning_insights (or suggestion generation), and not by a restart of
\* ArohaPatternLearning that reloads the pattern log.
C4_OccurrencesNeverDecrease ==
    [][ /\ \A t \in DOMAIN ar_gap_patterns :
              OccurrencesIn(ar_gap_patterns', t) >= ar_gap_patterns[t].occurrences
        /\ \A t \in DOMAIN sr_gap_patterns :
              OccurrencesIn(sr_gap_patterns', t) >= sr_gap_patterns[t].occurrences ]_vars

\* a pattern reloaded by a restart at 2 occurrences and then noticed again
C4_Witness ==
    /\ ar_restarts >= 1
    /\ \E t \in DOMAIN ar_gap_patterns :
          /\ ar_gap_patterns[t].occurrences = 3
          /\ ar_gap_patterns[t].contexts # <<>>
          /\ Len(ar_gap_patterns[t].contexts) < 3

\* C5 as stated: in every reachable state of both learners,
\* adjustment_suggestions holds at most one suggestion per pattern_type.
C5_AtMostOneSuggestionPerType ==
    /\ \A i, j \in 1..Len(ar_adjustment_suggestions) :
          ar_adjustment_suggestions[i].pattern_type = ar_adjustment_suggestions[j].pattern_type
              => i = j
    /\ \A i, j \in 1..Len(sr_adjustment_suggestions) :
          sr_adjustment_suggestions[i].pattern.pattern_type
              = sr_adjustment_suggestions[j].pattern.pattern_type => i = j

\* C6 as stated: with the default threshold, the notice_moment call that
\* brings a type to exactly 2 occurrences appends exactly one suggestion
\* record for it, with ready = true, and no step ever leaves the suggestion
\* log with a second record of a type (restarts included).
C6_OneSuggestionRecordPerType ==
    [][ \A t \in DOMAIN ar_gap_patterns' :
          /\ ( /\ ar_pattern_threshold = DefaultThreshold
               /\ OccurrencesIn(ar_gap_patterns, t) = 1
               /\ ar_gap_patterns'[t].occurrences = 2 )
             => /\ Len(suggestions_file') = Len(suggestions_file) + 1
                /\ suggestions_file'[Len(suggestions_file')].pattern_type = t
                /\ suggestions_file'[Len(suggestions_file')].ready
          /\ CountOfType(suggestions_file', t) <= 1 ]_vars

\* C12, as the specification states it: after a learning operation
\* (notice_moment, an orchestrator turn, construction with reload) every
\* pattern type whose occurrences reached the threshold has a suggestion in
\* adjustment_suggestions.
C12_ThresholdHasSuggestion ==
    /\ program = "aroha" =>
          \A t \in DOMAIN ar_gap_patterns :
              ar_gap_patterns[t].occurrences >= ar_pattern_threshold =>
                  \E i \in 1..Len(ar_adjustment_suggestions) :
                      ar_adjustment_suggestions[i].pattern_type = t
    /\ program = "orchestrator" =>
          \A t \in DOMAIN sr_gap_patterns :
              sr_gap_patterns[t].occurrences >= ReflectionThreshold =>
                  \E i \in 1..Len(sr_adjustment_suggestions) :
                      sr_adjustment_suggestions[i].pattern.pattern_type = t

\* the adjustment the specification gives for a number of occurrences
AdjustmentFor(occurrences) ==
    IF occurrences = 1 THEN 0 ELSE IF occurrences = 2 THEN 2000 ELSE 3000

\* a GapPattern whose confidence is min(1, occurrences/3) (held in
\* three-hundredths) and whose suggested_adjustment follows the table
FollowsFormula(pattern) ==
    /\ pattern.confidence = Min(300, 100 * pattern.occurrences)
    /\ pattern.suggested_adjustment = AdjustmentFor(pattern.occurrences)

\* C13, as the specification states it: every GapPattern created or updated
\* by a learner has confidence = min(1, occurrences/3) and
\* suggested_adjustment 0 / 0.2 / 0.3 at 1 / 2 / >= 3 occurrences.
C13_ConfidenceAndAdjustment ==
    /\ (program = "aroha" /\ ar_restarts = 0) =>
          \A t \in DOMAIN ar_gap_patterns : FollowsFormula(ar_gap_patterns[t])
    /\ program = "reflection" =>
          \A t \in DOMAIN sr_gap_patterns : FollowsFormula(sr_gap_patterns[t])

\* a record holding every key _load_patterns reads
WellFormed(line) == PatternKeys \subseteq DOMAIN line

\* the last record of pattern type t in a log of well-formed records
LastRecord(file, t) ==
    file[CHOOSE i \in 1..Len(file) :
           /\ file[i].pattern_type = t
           /\ \A j \in (i + 1)..Len(file) : file[j].pattern_type # t]

\* C14: an ArohaPatternLearning constructed over a log of well-formed
\* records holds, for each pattern type of the log, a GapPattern with the
\* occurrences, dimension, confidence and suggested_adjustment of the last
\* record of that type and an empty context list, and no other pattern.
C14_ReloadLastRecord ==
    ( /\ program = "load" /\ ar_restarts > 0
      /\ \A i \in 1..Len(patterns_file) : WellFormed(patterns_file[i]) )
    =>
    /\ DOMAIN ar_gap_patterns =
           {patterns_file[i].pattern_type : i \in 1..Len(patterns_file)}
    /\ \A t \in DOMAIN ar_gap_patterns :
          LET last == LastRecord(patterns_file, t)
              pattern == ar_gap_patterns[t]
          IN  /\ pattern.pattern_type = t
              /\ pattern.occurrences = last.occurrences
              /\ pattern.ras_dimension = last.dimension
              /\ pattern.confidence = last.confidence
              /\ pattern.suggested_adjustment = last.suggested_adjustment
              /\ pattern.contexts = <<>>

\* learning_engagement at 2 then 1 occurrences, with action_success between
C14_Witness ==
    /\ program = "load" /\ ar_restarts > 0
    /\ patterns_file = << WrittenLine("learning_engagement", "aspiration", 2),
                          WrittenLine("action_success", "aspiration", 1),
                          WrittenLine("learning_engagement", "aspiration", 1) >>
    /\ ar_gap_patterns["learning_engagement"].occurrences = 1

\* C15, as the specification states it: reloading a log with malformed
\* records yields the pattern state of the same log with the malformed
\* records removed.
C15_MalformedSkipped ==
    (program = "load" /\ ar_restarts > 0) =>
        ar_gap_patterns = Aroha_load_patterns(SelectSeq(patterns_file, WellFormed))

\* the rule categories of ArohaPatternLearning._classify_gap_type, numbered
\* in the order of the source: does category k match the moment?
ArohaCategoryMatches(k, gap, context) ==
    CASE k = 1 -> \E w \in {"see", "visual", "vision", "read", "text"} :
                     Has(gap, w) \/ Has(context, w)
      [] k = 2 -> \E w \in {"move", "click", "navigate", "action"} : Has(context, w)
      [] k = 3 -> \E w \in {"goal", "task", "complete", "achieve"} : Has(context, w)
      [] k = 4 -> \E w \in {"permission", "trust", "allowed"} : Has(gap, w)
      [] k = 5 -> \E w \in {"learn", "grow", "improve", "adapt"} : Has(context, w)

ArohaCategoryTypes(k) ==
    CASE k = 1 -> {"visual_confirmation", "visual_relevance", "visual_perception"}
      [] k = 2 -> {"action_success", "obstacle_response", "movement_confidence"}
      [] k = 3 -> {"goal_satisfaction"}
      [] k = 4 -> {"permission_trust"}
      [] k = 5 -> {"learning_engagement"}

\* the same for ClaudeSelfReflection._classify_gap_type
ReflectionCategoryMatches(k, gap, context) ==
    CASE k = 1 -> \E w \in {"permission", "trust", "gift", "autonomy"} :
                     Has(gap, w) \/ Has(context, w)
      [] k = 2 -> \E w \in {"consciousness", "development", "growth", "reflection"} :
                     Has(context, w)
      [] k = 3 -> \E w \in {"relationship", "collaborative"} : Has(gap, w)
      [] k = 4 -> \E w \in {"collaborative", "together"} : Has(context, w)

ReflectionCategoryTypes(k) ==
    CASE k = 1 -> {"permission_trust_signal"}
      [] k = 2 -> {"meta_conversation"}
      [] k = 3 -> {"relationship_depth"}
      [] k = 4 -> {"collaborative_opportunity"}

\* the categories of a learner that match a moment
ArohaMatching(moment) ==
    {k \in 1..5 : ArohaCategoryMatches(k, Lower(moment.gap_noticed), Lower(moment.context))}
ReflectionMatching(moment) ==
    {k \in 1..4 : ReflectionCategoryMatches(k, Lower(moment.gap_noticed), Lower(moment.context))}

Earliest(ks) == CHOOSE k \in ks : \A j \in ks : k <= j

\* a moment with a gap that no category of ArohaPatternLearning matches, or
\* a moment without a gap
ArohaNoRule(moment) == ~Truthy(moment.gap_noticed) \/ ArohaMatching(moment) = {}
ReflectionNoRule(moment) == ~Truthy(moment.gap_noticed) \/ ReflectionMatching(moment) = {}

\* C16: a notice_moment call whose gap and context match no classification
\* rule appends the moment to the moment log (significant_moments) and
\* leaves gap_patterns, the suggestions and the pattern and suggestion logs
\* as they were; the patterns ClaudeSelfReflection detects are the same
\* with and without the moment.
C16_UnclassifiedIsRecordedOnly ==
    [][ /\ ( /\ program = "aroha"
             /\ Len(moments_file') = Len(moments_file) + 1
             /\ ArohaNoRule(moments_file'[Len(moments_file')]) )
           => /\ SubSeq(moments_file', 1, Len(moments_file)) = moments_file
              /\ UNCHANGED <<ar_gap_patterns, ar_adjustment_suggestions,
                             patterns_file, suggestions_file>>
        /\ ( /\ program = "reflection"
             /\ Len(sr_significant_moments') = Len(sr_significant_moments) + 1
             /\ ReflectionNoRule(sr_significant_moments'[Len(sr_significant_moments')]) )
           => /\ SubSeq(sr_significant_moments', 1, Len(sr_significant_moments))
                     = sr_significant_moments
              /\ UNCHANGED <<sr_gap_patterns, sr_adjustment_suggestions, sr_suggestions_file>>
              /\ Reflection_detect_patterns(sr_significant_moments')
                     = Reflection_detect_patterns(sr_significant_moments)
      ]_vars

\* a classified moment, then one with a gap that matches no rule
C16_Witness ==
    /\ program = "aroha" /\ Len(moments_file) = 2
    /\ Truthy(moments_file[2].gap_noticed) /\ ArohaNoRule(moments_file[2])
    /\ Len(patterns_file) = 1 /\ DOMAIN ar_gap_patterns # {}

\* C17: for a moment with a gap, each _classify_gap_type returns a pattern
\* type of the earliest category, in the order of the source, whose
\* keywords match the moment, and no classification when none matches.
C17_FirstMatchingRule ==
    (fn_pc = "classified" /\ Truthy(fn_in.gap_noticed)) =>
        /\ IF ArohaMatching(fn_in) = {} THEN fn_felt.aroha = None
           ELSE /\ fn_felt.aroha # None
                /\ fn_felt.aroha[1] \in ArohaCategoryTypes(Earliest(ArohaMatching(fn_in)))
        /\ IF ReflectionMatching(fn_in) = {} THEN fn_felt.reflection = None
           ELSE /\ fn_felt.reflection # None
                /\ fn_felt.reflection[1] \in
                       ReflectionCategoryTypes(Earliest(ReflectionMatching(fn_in)))

\* a moment matching the permission, the meta-conversation and the
\* relationship category of ClaudeSelfReflection
C17_Witness ==
    /\ fn_pc = "classified"
    /\ fn_in.context = {"gift", "reflection"} /\ fn_in.gap_noticed = {"relationship"}
    /\ ReflectionMatching(fn_in) = {1, 2, 3}
    /\ fn_felt.reflection[1] = "permission_trust_signal"

RASDimensions == {"autonomy", "relevance", "openness", "harmony", "aspiration"}

\* C18, as the specification states it: the dimension tag of every
\* GapPattern of both learners is one of the five RAS dimensions.
C18_DimensionIsRASDimension ==
    /\ \A t \in DOMAIN ar_gap_patterns : ar_gap_patterns[t].ras_dimension \in RASDimensions
    /\ \A t \in DOMAIN sr_gap_patterns : sr_gap_patterns[t].ras_dimension \in RASDimensions

\* C23, as the specification states it: what get_learning_insights reports
\* for a suggestion of ArohaPatternLearning (occurrences, adjustment and
\* confidence) is the same in every later report of the same learner.
C23_SuggestionImmutable ==
    [][ (program = "aroha" /\ insights # Nothing /\ insights' # Nothing) =>
           \A i \in 1..Len(insights.suggestions) :
              /\ i <= Len(insights'.suggestions)
              /\ insights'.suggestions[i].rationale_occurrences
                     = insights.suggestions[i].rationale_occurrences
              /\ insights'.suggestions[i].adjustment = insights.suggestions[i].adjustment
              /\ insights'.suggestions[i].confidence = insights.suggestions[i].confidence
      ]_vars

\* some pattern type has reached the threshold and confidence >= 0.66
SomePatternReady ==
    \E t \in DOMAIN ar_gap_patterns :
       /\ ar_gap_patterns[t].occurrences >= ar_pattern_threshold
       /\ ar_gap_patterns[t].confidence >= 198

\* C24, as the specification states it: for every pattern_threshold >= 1,
\* get_learning_insights reports suggestions_ready >= 1 and "Ready to
\* integrate learning" once some pattern type has reached the threshold
\* and confidence >= 0.66, and "Accumulating experience" before.
C24_ReadyOnceReached ==
    [][ (program = "aroha" /\ insights' # Nothing /\ insights' # insights) =>
           IF SomePatternReady
           THEN /\ insights'.suggestions_ready >= 1
                /\ insights'.status = "Ready to integrate learning"
           ELSE /\ insights'.suggestions_ready = 0
                /\ insights'.status = "Accumulating experience"
      ]_vars

(***************************************************************************)
(* Claims about the orchestrator                                           *)
(***************************************************************************)
\* a noticed moment of an exchange computed THOUGHTFUL and felt FULL_PRESENCE
\* whose text holds "permission"
PermissionGapMoment(moment) ==
    /\ moment.ras_engagement = "THOUGHTFUL"
    /\ moment.felt_engagement = "FULL_PRESENCE"
    /\ \/ Has(Lower(moment.gap_noticed), "permission")
       \/ Has(Lower(moment.context), "permission")

\* C7, as the specification states it: after two consecutive orchestrator
\* turns computed THOUGHTFUL, felt FULL_PRESENCE, with "permission" in the
\* gap, the learning state holds exactly one permission_trust_signal pattern
\* with occurrences = 2 and exactly one suggestion, ready for integration
\* (suggestions_ready = 1, status "Ready to integrate learning").
C7_AsStated ==
    ( /\ program = "orchestrator"
      /\ exchanges_processed = 2
      /\ Len(sr_significant_moments) = 2
      /\ \A i \in 1..2 : PermissionGapMoment(sr_significant_moments[i]) )
    =>
    ( /\ DOMAIN sr_gap_patterns = {"permission_trust_signal"}
      /\ sr_gap_patterns["permission_trust_signal"].occurrences = 2
      /\ Len(sr_adjustment_suggestions) = 1
      /\ sr_adjustment_suggestions[1].ready_for_integration
      /\ insights.suggestions_ready = 1
      /\ insights.status = "Ready to integrate learning" )

\* the n most recently added entries of a list, oldest first
Newest(list, n) ==
    LET k == Min(n, Len(list))
    IN  [i \in 1..k |-> list[Len(list) - k + i]]

\* C9: conversation_memory never holds more than 10 entries,
\* consciousness_history never more than 50 and recent_activities never more
\* than 20; every exchange leaves in each list exactly the most recently
\* added entries, in insertion order, the entry of this exchange last.
C9_RollingCaps ==
    /\ [](program = "history" =>
            /\ Len(ras_conversation_memory) <= 10
            /\ Len(consciousness_history) <= 50
            /\ Len(pr.recent_activities) <= 20)
    /\ [][(program = "history" /\ exchanges_processed' = exchanges_processed + 1) =>
            /\ ras_conversation_memory'[Len(ras_conversation_memory')].timestamp = now'
            /\ ras_conversation_memory' =
                   Newest(Append(ras_conversation_memory,
                                 ras_conversation_memory'[Len(ras_conversation_memory')]), 10)
            /\ consciousness_history'[Len(consciousness_history')].timestamp = now'
            /\ consciousness_history' =
                   Newest(Append(consciousness_history,
                                 consciousness_history'[Len(consciousness_history')]), 50)
            /\ pr'.recent_activities =
                   Newest(pr.recent_activities \o Newest(recent_tool_calls, 10), 20)
          ]_vars

\* all three lists full, each having lost its oldest entries
C9_Witness ==
    /\ program = "history"
    /\ Len(ras_conversation_memory) = 10 /\ ras_conversation_memory[1].timestamp > 1
    /\ Len(consciousness_history) = 50 /\ consciousness_history[1].timestamp > 1
    /\ Len(pr.recent_activities) = 20 /\ Len(recent_tool_calls) = MaxHistTools
    /\ exchanges_processed > 50

\* the pattern types ClaudeSelfReflection classifies to
ReflectionTypes ==
    { "permission_trust_signal", "meta_conversation", "relationship_depth",
      "collaborative_opportunity" }

\* the gap moment of a recorded exchange, rebuilt from the history entry
MomentOfExchange(entry) ==
    [ context |-> {"Conversation:"} \cup First100(entry.perception.user_message),
      gap_noticed |-> entry.gap_description ]

\* the exchanges of the history whose gap is classified to pattern type t
GapTurns(history, t) ==
    { i \in 1..Len(history) :
        /\ history[i].gap_detected
        /\ Reflection_classify_gap_type(MomentOfExchange(history[i])) # None
        /\ Reflection_classify_gap_type(MomentOfExchange(history[i]))[1] = t }

\* C11: the learning state returned by the n-th orchestrator turn reports,
\* for each pattern type, as many occurrences as there are turns 1..n whose
\* gap was classified to that type; a type no turn was classified to is not
\* reported.
C11_TurnCounts ==
    (program = "orchestrator" /\ exchanges_processed > 0) =>
        LET reported == result.consciousness_metadata.pattern_learning_state.active_patterns
        IN  /\ result.consciousness_metadata.exchanges_processed = exchanges_processed
            /\ \A t \in ReflectionTypes :
                  Cardinality(GapTurns(consciousness_history, t)) =
                      IF t \in DOMAIN reported THEN reported[t].occurrences ELSE 0
            /\ DOMAIN reported \subseteq ReflectionTypes

\* two turns: the first classified to relationship_depth, the second to
\* permission_trust_signal
C11_Witness ==
    /\ program = "orchestrator" /\ exchanges_processed = 2
    /\ GapTurns(consciousness_history, "relationship_depth") = {1}
    /\ GapTurns(consciousness_history, "permission_trust_signal") = {2}
    /\ result.consciousness_metadata.pattern_learning_state.patterns_detected = 2

\* what learn has to leave behind after an exchange with actual_felt
LearnOutcome(actual_felt) ==
    LET computed == result'.reflection.chosen_engagement
        supplied == actual_felt # None /\ actual_felt # ""
        outcome == result'.outcome
    IN  /\ outcome.gap_detected = (supplied /\ actual_felt # computed)
        /\ IF supplied /\ actual_felt # computed
           THEN /\ Len(sr_significant_moments') = Len(sr_significant_moments) + 1
                /\ SubSeq(sr_significant_moments', 1, Len(sr_significant_moments))
                       = sr_significant_moments
                /\ LET moment == sr_significant_moments'[Len(sr_significant_moments')]
                   IN  /\ moment.ras_engagement = computed
                       /\ moment.felt_engagement = actual_felt
                       /\ {computed, actual_felt} \subseteq moment.gap_noticed
                       /\ outcome.gap_description = moment.gap_noticed
           ELSE /\ sr_significant_moments' = sr_significant_moments
                /\ outcome.gap_description = NoneText

\* C19: an exchange of the orchestrator reports gap_detected exactly when
\* an actual-felt label was supplied and differs from the computed
\* engagement level; it then records exactly one moment whose description
\* names both levels, and otherwise records no moment and reports no
\* gap_description.
C19_GapIffFeltDiffers ==
    [][ exchanges_processed' = exchanges_processed + 1 =>
           \A i \in OrchInputs, a \in ActualFelt :
              ( /\ result'.perception.user_message = i[1]
                /\ Orch_process_conversation(i[1], i[2], None, a) )
              => LearnOutcome(a) ]_vars

\* an exchange with a gap, then one whose felt label is the computed level
C19_Witness ==
    /\ program = "orchestrator" /\ exchanges_processed = 2
    /\ Len(sr_significant_moments) = 1
    /\ consciousness_history[1].gap_detected
    /\ ~ consciousness_history[2].gap_detected
    /\ result.reflection.chosen_engagement = "COLLABORATIVE"
    /\ sr_significant_moments[1].ras_engagement = "THOUGHTFUL"
    /\ sr_significant_moments[1].felt_engagement = "COLLABORATIVE"

\* the labels of each kind
ReflectionLabels == {"reflect_on_patterns"}
WriteLabels == {"Write", "Edit"}
ReadLabels == {"Read", "Grep", "Glob", "WebSearch"}

\* the last 5 labels of a window, and how many of them are of a kind
ModeWindow(activities) ==
    IF Len(activities) <= 5 THEN activities
    ELSE SubSeq(activities, Len(activities) - 4, Len(activities))
HowMany(window, labels) == Cardinality({i \in DOMAIN window : window[i] \in labels})

\* C26: the mode of a scan is, by the last 5 labels of the action window,
\* REFLECTING if any is a reflection label, else IMPLEMENTING if at least 2
\* are write-like, else RESEARCHING if at least 3 are read-like, else
\* PLANNING if the window is empty and engagement_pull > 0.5, else
\* CONVERSING if the window is not empty, else OBSERVING.
C26_ModePriority ==
    (program = "mode" /\ result # Nothing) =>
        LET window == ModeWindow(pr.recent_activities)
            pull == pr.resources.engagement_pull
            mode == IF HowMany(window, ReflectionLabels) > 0 THEN "reflecting"
                    ELSE IF HowMany(window, WriteLabels) >= 2 THEN "implementing"
                    ELSE IF HowMany(window, ReadLabels) >= 3 THEN "researching"
                    ELSE IF window = <<>> /\ pull > 5000 THEN "planning"
                    ELSE IF window # <<>> THEN "conversing"
                    ELSE "observing"
        IN  /\ pr.state.current_mode = mode
            /\ result.current_mode = mode

\* a reflection label that has left the last 5 labels, and writes and
\* reads among them
C26_Witness ==
    /\ program = "mode" /\ result # Nothing
    /\ pr.recent_activities =
           <<"reflect_on_patterns", "Read", "Read", "Edit", "Read", "Edit">>
    /\ result.current_mode = "implementing"

\* mode is PLANNING, REFLECTING or IMPLEMENTING, or engagement_pull > 0.6
ConsciousBy(p) ==
    \/ p.state.current_mode \in {"planning", "reflecting", "implementing"}
    \/ p.resources.engagement_pull > 6000

\* C27, as the specification states it: the conscious_now an exchange
\* returns with its proprioceptive state, and the conscious_now of the
\* proprioceptive_state of get_consciousness_summary, equal "mode is
\* PLANNING, REFLECTING or IMPLEMENTING, or engagement_pull > 0.6" of the
\* proprioception at that moment.
C27_ConsciousFlag ==
    [][ program = "orchestrator" =>
           /\ result' # result =>
                 result'.reflection.proprioceptive_state.conscious_now = ConsciousBy(pr')
           /\ summary' # summary =>
                 summary'.proprioceptive_state.conscious_now = ConsciousBy(pr')
      ]_vars

\* C28: every process_conversation call raises exchanges_processed by
\* exactly 1 and appends exactly one snapshot, made of the perception, the
\* reflection and the decision the call returns (perceive ran before the
\* RAS of reflect stored the exchange); nothing else moves the counter.
\* After n calls exchanges_processed = n, consciousness_history has
\* min(n, 50) entries and the conversation_history_length perceived in
\* call n is min(n - 1, 10).
C28_OneSnapshotPerExchange ==
    /\ [](program = "history" =>
            /\ Len(consciousness_history) = Min(exchanges_processed, 50)
            /\ exchanges_processed > 0 =>
                  /\ result.consciousness_metadata.exchanges_processed = exchanges_processed
                  /\ result.perception.conversation_history_length
                         = Min(exchanges_processed - 1, 10))
    /\ [][ program = "history" =>
              /\ exchanges_processed' # exchanges_processed => result' # result
              /\ result' # result =>
                    /\ exchanges_processed' = exchanges_processed + 1
                    /\ LET snapshot == consciousness_history'[Len(consciousness_history')]
                       IN  /\ snapshot.perception = result'.perception
                           /\ snapshot.reflection = result'.reflection
                           /\ snapshot.decision = result'.decision
                           /\ consciousness_history' =
                                  Newest(Append(consciousness_history, snapshot), 50)
         ]_vars

\* the 52nd exchange: the history is full and the RAS memory too
C28_Witness ==
    /\ program = "history" /\ exchanges_processed = 52
    /\ result.consciousness_metadata.exchanges_processed = 52
    /\ Len(consciousness_history) = 50
    /\ result.perception.conversation_history_length = 10

\* C32: a scan appends a transition event to mode_history exactly when the
\* mode it derives differs from the current mode; the event's `from` is the
\* mode before the scan and its `to` the mode after it, so the first event
\* starts from OBSERVING, each later event's `from` is the previous event's
\* `to`, and the last event's `to` is the current mode.
C32_ModeTransitionsLogged ==
    /\ [][ LET before == pr.state
               after == pr'.state
           IN  IF after.current_mode # before.current_mode
               THEN /\ Len(after.mode_history) = Len(before.mode_history) + 1
                    /\ SubSeq(after.mode_history, 1, Len(before.mode_history))
                           = before.mode_history
                    /\ after.mode_history[Len(after.mode_history)].from
                           = before.current_mode
                    /\ after.mode_history[Len(after.mode_history)].to
                           = after.current_mode
               ELSE after.mode_history = before.mode_history ]_vars
    /\ [] LET history == pr.state.mode_history
          IN  /\ history = <<>> => pr.state.current_mode = "observing"
              /\ history # <<>> =>
                    /\ history[1].from = "observing"
                    /\ history[Len(history)].to = pr.state.current_mode
              /\ \A i \in 1..(Len(history) - 1) : history[i + 1].from = history[i].to

\* three transitions have been logged, and a scan since the last one left
\* the mode as it was
C32_Witness ==
    /\ Len(pr.state.mode_history) = 3
    /\ pr.state.time_in_mode > 0
    /\ pr.state.mode_history[3].to = pr.state.current_mode

\* how often a label stands in a list
Occurrences(list, label) == Cardinality({i \in DOMAIN list : list[i] = label})

\* C34: each label recorded once through track_tool_call stands at most once
\* in the proprioceptive action window, however many turns are processed
\* afterwards, so the read and write counts that drive the mode never exceed
\* the number of actions tracked.
C34_TrackedOnce ==
    program = "orchestrator" =>
        /\ \A i \in DOMAIN pr.recent_activities :
              Occurrences(pr.recent_activities, pr.recent_activities[i])
                  <= Occurrences(recent_tool_calls, pr.recent_activities[i])
        /\ HowMany(ModeWindow(pr.recent_activities), WriteLabels) <= Len(recent_tool_calls)
        /\ HowMany(ModeWindow(pr.recent_activities), ReadLabels) <= Len(recent_tool_calls)

(***************************************************************************)
(* Claims about the emotional model                                        *)
(***************************************************************************)
RECURSIVE TrailingMisunderstandings(_)
\* number of "misunderstanding" entries at the end of an emotional history
TrailingMisunderstandings(history) ==
    IF history = <<>> \/ history[Len(history)].event # "misunderstanding" THEN 0
    ELSE 1 + TrailingMisunderstandings(SubSeq(history, 1, Len(history) - 1))

\* C10: consecutive_confusions is 0 right after every on_successful_exchange
\* and otherwise equals the number of on_misunderstanding events since the
\* last on_successful_exchange (or since creation).
C10_ConfusionStreak ==
    program = "emotion" =>
        ei.consecutive_confusions = TrailingMisunderstandings(ei.emotional_history)

\* success, confusion, success
C10_Witness ==
    /\ program = "emotion"
    /\ Len(ei.emotional_history) = 3
    /\ ei.emotional_history[1].event = "successful_exchange"
    /\ ei.emotional_history[2].event = "misunderstanding"
    /\ ei.emotional_history[3].event = "successful_exchange"
    /\ ei.consecutive_confusions = 0 /\ ei.total_exchanges = 3

ClarificationThreshold(e) ==
    2 + (2 * Scale - (e.values.humility + e.values.respect)) \div Scale

\* the other two reasons to ask: uncertainty > 5.5 or serotonin < 0.4
AskAnyway(e) == e.uncertainty > 55000 \/ e.neurotransmitters.serotonin < 4000

\* a should_ask_for_clarification call has just returned
AskedNow == ei_returned.call = "should_ask_for_clarification"

\* C21, as the specification states it: should_ask_for_clarification
\* returns true exactly when consecutive_confusions is strictly greater
\* than the threshold, or uncertainty > 5.5, or serotonin < 0.4.
C21_AsStated ==
    AskedNow =>
        ei_returned.value =
            (ei.consecutive_confusions > ClarificationThreshold(ei) \/ AskAnyway(ei))

\* C21, amended: should_ask_for_clarification returns true exactly when
\* consecutive_confusions is at least the threshold, or uncertainty > 5.5,
\* or serotonin < 0.4, and the call changes no state.
C21_AsksAtThreshold ==
    [][ ei_returned'.call = "should_ask_for_clarification" =>
           /\ ei' = ei
           /\ ei_returned'.value =
                  (ei.consecutive_confusions >= ClarificationThreshold(ei) \/ AskAnyway(ei))
      ]_vars

\* asked after exactly two misunderstandings in a row, nothing else amiss
C21_Witness ==
    /\ AskedNow /\ ei_returned.value
    /\ ei.consecutive_confusions = 2 /\ ClarificationThreshold(ei) = 2
    /\ ~AskAnyway(ei)

\* serotonin < 0.4 or noradrenaline > 0.8
RegulationDue(e) ==
    e.neurotransmitters.serotonin < 4000 \/ e.neurotransmitters.noradrenaline > 8000

\* C22: an apply_regulation call made when neither serotonin < 0.4 nor
\* noradrenaline > 0.8 holds leaves the regulation triple, the PAD state
\* and uncertainty (and everything else) as they were; a call that changes
\* anything was made when one of the two held.
C22_RegulationOnlyWhenDue ==
    [][ ei_returned'.call = "apply_regulation" =>
           /\ ~RegulationDue(ei) =>
                 /\ ei'.neurotransmitters = ei.neurotransmitters
                 /\ ei'.pad = ei.pad
                 /\ ei'.uncertainty = ei.uncertainty
                 /\ ei' = ei
           /\ ei' # ei => RegulationDue(ei)
      ]_vars

\* apply_regulation called after two misunderstandings: noradrenaline 0.64,
\* serotonin 0.64, nothing to regulate
C22_Witness ==
    /\ ei_returned.call = "apply_regulation"
    /\ ei.consecutive_confusions = 2 /\ ei.total_exchanges = 2
    /\ ei.neurotransmitters.noradrenaline = 6400
    /\ ei.neurotransmitters.serotonin = 6400
    /\ ei.uncertainty > 0



\* C33: under any sequence of on_successful_exchange, on_misunderstanding,
\* apply_regulation and appraise_conversation_outcome calls on a new
\* ClaudeEmotionalIntelligence the engagement metric stays 5.0, so
\* on_misunderstanding takes its not-engaged branch and never applies the
\* regulation, however many confusions there are in a row: it leaves the
\* neuromodulators as on_confusion_or_misunderstanding left them and the
\* uncertainty raised by 0.6 * (1 - serotonin).
C33_NeverEngaged ==
    /\ [](program = "emotion" => ei.engagement = 5 * Scale)
    /\ [][ (program = "emotion"
              /\ ei'.consecutive_confusions = ei.consecutive_confusions + 1) =>
             /\ ei'.neurotransmitters
                    = Neuro_on_confusion_or_misunderstanding(ei.neurotransmitters)
             /\ ei'.uncertainty
                    = Min(10 * Scale,
                          ei.uncertainty
                              + Times(6000, Scale - ei.neurotransmitters.serotonin))
         ]_vars

\* a third confusion in a row has left the neuromodulators in need of
\* regulation
C33_Witness ==
    /\ program = "emotion"
    /\ ei.consecutive_confusions >= 3
    /\ Neuro_needs_regulation(ei.neurotransmitters)
    /\ ei.engagement = 5 * Scale

\* C37: an emotional model reached only through the orchestrator's three
\* operations has, whenever a turn decides, no confusion streak, no
\* uncertainty, serotonin of 0.7 or more and a PAD state that is the initial
\* one or the coordinate a success sets; so every turn's decision has
\* should_ask_clarification false and its reflection's primary emotion is
\* "neutral".
SuccessPAD == PAD_set(7000, 5000, 7000)
C37_NeutralNeverAsks ==
    program = "orchestrator" =>
        /\ ei.consecutive_confusions = 0
        /\ ei.uncertainty = 0
        /\ ei.neurotransmitters.serotonin >= 7000
        /\ ei.pad \in {EI_new.pad, SuccessPAD}
        /\ result # Nothing =>
              /\ result.decision.should_ask_clarification = FALSE
              /\ result.reflection.primary_emotion = "neutral"

\* a second turn has decided on the state the first turn's success left
C37_Witness ==
    /\ program = "orchestrator" /\ exchanges_processed = 2
    /\ result # Nothing
    /\ result.reflection.emotional_state.valence = 7000
    /\ result.reflection.primary_emotion = "neutral"
    /\ result.decision.should_ask_clarification = FALSE
    /\ ei.neurotransmitters.serotonin > 7000
    /\ Len(recent_tool_calls) > 0 /\ summary # Nothing

\* some pattern is new, or has more occurrences, after the step
PatternsGrew ==
    \E t \in DOMAIN sr_gap_patterns' :
        \/ t \notin DOMAIN sr_gap_patterns
        \/ sr_gap_patterns'[t].occurrences > sr_gap_patterns[t].occurrences

\* C38: the outcome of an orchestrator turn reports pattern_learning_updated
\* only if the turn created a GapPattern or raised the occurrence count of
\* one; a turn whose gap no classification rule matches reports false.
C38_UpdatedOnlyIfPatternsGrew ==
    [][ ( /\ program = "orchestrator"
          /\ exchanges_processed' = exchanges_processed + 1
          /\ result'.outcome.pattern_learning_updated )
        => PatternsGrew ]_vars

\* the words _classify_gap_type looks for in the context of a moment
TaxonomyKeywords ==
    { "permission", "trust", "gift", "autonomy", "consciousness", "development",
      "growth", "reflection", "collaborative", "together" }

\* the moment learn() notices for the same message when the RAS computed
\* `computed` and the felt level was `felt`
SameMessageMoment(moment, computed, felt) ==
    ReflectionMoment(moment.context, computed, felt,
                     {"RAS computed", computed, "but felt", felt},
                     moment.significance)

\* the pattern type a moment is classified to, None when it is unclassified
ClassifiedType(moment) ==
    LET classification == Reflection_classify_gap_type(moment)
    IN  IF classification = None THEN None ELSE classification[1]

\* C39: the pattern type a gap of an orchestrator turn is classified to (or
\* its being unclassified) is the same for every pair of differing computed
\* and felt level names with the same message text, and a message without a
\* taxonomy keyword contributes to no pattern.
C39_ClassifiedByMessageOnly ==
    program = "orchestrator" =>
        \A i \in 1..Len(sr_significant_moments) :
            LET moment == sr_significant_moments[i]
            IN  /\ \A computed \in LevelNames : \A felt \in LevelNames \ {computed} :
                       ClassifiedType(SameMessageMoment(moment, computed, felt))
                           = ClassifiedType(moment)
                /\ ~ HasAny(Lower(moment.context), TaxonomyKeywords)
                       => ClassifiedType(moment) = None

\* the modes a scan can sense with a label in the window
ActiveModes == {"reflecting", "implementing", "researching", "conversing"}

\* C40: once the proprioceptive window holds a label it is never empty
\* again, and every later scan senses one of REFLECTING, IMPLEMENTING,
\* RESEARCHING and CONVERSING: PLANNING and OBSERVING are not re-entered.
C40_NoReturnToIdleModes ==
    /\ [][ (program = "orchestrator" /\ pr.recent_activities # <<>>)
            => /\ pr'.recent_activities # <<>>
               /\ pr'.state.current_mode \in ActiveModes ]_vars
    /\ [] ( (program = "orchestrator" /\ pr.recent_activities # <<>>)
            => pr.state.current_mode \in ActiveModes )

\* a scan without labels (the summary's) came after a turn had put labels
\* in the window, which had left PLANNING for good
C40_Witness ==
    /\ program = "orchestrator"
    /\ pr.recent_activities # <<>>
    /\ summary # Nothing /\ summary.exchanges_processed >= 1
    /\ summary.proprioceptive_state.current_mode.mode_description
           = "I am engaging in direct exchange"
    /\ Len(pr.state.mode_history) >= 2
    /\ pr.state.mode_history[1].to = "planning"
    /\ pr.state.current_mode = "conversing"

(***************************************************************************)
(* Claims about the embodied agent                                         *)
(***************************************************************************)
\* C29: the embodied agent never sends more than 10 actions to the actuator
\* endpoints within any period of 60 seconds, whatever the outcomes of the
\* requests and wherever the counter-reset boundary falls: no stopwatch
\* started on the actuator endpoints has seen more than 10 requests leave
\* in its 60 seconds.
C29_ActionsPerMinute ==
    (watch # Nothing /\ watch.kind = "action")
        => watch.seen <= MAX_ACTIONS_PER_MINUTE

\* C30: the embodied agent never issues more than 60 Gemini API requests
\* within any hour, counting those of the deep-reasoning step and of wonder
\* cycles and those that fail or return nothing: no stopwatch started on the
\* Gemini endpoint has seen more than 60 requests leave in its hour.
C30_CallsPerHour ==
    (watch # Nothing /\ watch.kind = "api")
        => watch.seen <= MAX_GEMINI_CALLS_PER_HOUR


\* C31: every request sent to an actuator endpoint is preceded, in the same
\* _execute_action call, by a conscience check of that action that returned
\* allowed; an action the conscience blocks or marks as requiring permission
\* is never sent and leaves actions_this_minute as it was.
C31_ConscienceBeforeActuator ==
    fn_pc = "executed" =>
        /\ fn_felt.sent =>
              /\ fn_felt.conscience = "allowed"
              /\ Conscience_check_action(fn_in.action)
        /\ ~ Conscience_check_action(fn_in.action) =>
              /\ ~ fn_felt.sent
              /\ fn_felt.ras.actions_this_minute = fn_in.ras.actions_this_minute

\* a shell command the conscience allows has left, and the same call would
\* have refused `sudo`
C31_Witness ==
    /\ program = "execute" /\ fn_pc = "executed"
    /\ fn_in.action = [type |-> "shell", command |-> {"ls"}]
    /\ fn_felt.sent /\ fn_felt.conscience = "allowed"
    /\ fn_felt.ras.actions_this_minute = fn_in.ras.actions_this_minute + 1
    /\ ~ Conscience_check_action([type |-> "shell", command |-> {"sudo"}])

====
